---- MODULE Spec2Model ----
(***************************************************************************)
(* Verification model of the BurntBeats procedural composition engine:     *)
(*   - server/music-generator.py: generate_music / generate_composition,   *)
(*     the four layer generators and the stereo mix;                       *)
(*   - server/advanced-algorithmic-composer.py and                         *)
(*     server/algorithmic-composer.py: the L-system, random-walk, Markov   *)
(*     and cellular-automaton generators.                                  *)
(* Sample values are fixed-point integers; sample buffers are represented  *)
(* by their lengths and by the index ranges written into them.             *)
(***************************************************************************)
EXTENDS Integers, Sequences, FiniteSets, TLC

VARIABLES
    \* ---- music-generator.py: one render ---------------------------------
    req,                 \* the request: tempo, duration, genre, lyrics
    pc,                  \* position inside generate_music
    duration_samples,    \* generate_music line 41
    samples_per_beat,    \* generate_composition line 80
    total_beats,         \* generate_composition line 81
    layer_len,           \* lengths of the melody/bass/chords/drums lists
    beat,                \* loop variable of the running layer generator
    current_note_index,  \* generate_melody line 131
    note_freq,           \* index into scale_notes of the last melody note
    noise,               \* last snare noise draw, one of NoiseDraws
    span,                \* <<start, end>> of the last range of samples written
    audio,               \* what generate_composition returned
    tones,               \* the frequencies the last pass of a layer loop rendered
    run,                 \* 1 for the first invocation, 2 for a repetition
    first,               \* the random outcome of the first invocation
    \* ---- the mixing arithmetic of one sample ---------------------------
    mix_in,              \* the four layer samples and instrumental_only
    mix_out,             \* <<left, right>> after gain, headroom and clamp
    \* ---- the algorithmic composers --------------------------------------
    variant,             \* "advanced" (AdvancedAlgorithmicComposer) or "basic"
    args,                \* the arguments of the generator call
    cpc,                 \* position inside the generator
    current,             \* the L-system string
    rounds,              \* rewriting rounds completed
    current_degree,      \* scale degree of the melodic generators
    direction,           \* direction of the random walk
    next_degree,         \* the advanced degree before reflection
    reflected,           \* which boundary the last walk step reflected at
    step_i,              \* loop index i of the generator
    melody_notes,        \* the notes emitted: <<degree, quarterLength * 100>>
    progression,         \* the chord symbols of the Markov chain
    weight_sum,          \* sum(weights) of the last row sampled, a double
    fell_back,           \* the except branch of a Markov step was taken
    cells,               \* the cellular-automaton row
    gen,                 \* generations evolved
    durations,           \* the quarterLengths returned, as <<numerator, denominator>>
    offsets,             \* where the notes that got them start in the melody part
    \* ---- music-generator.py: write_stereo_wav -----------------------------
    wpc,                 \* position inside write_stereo_wav
    sample_rate,         \* the sample_rate argument
    left_channel,        \* audio_data[0], samples in units of 1 / SampleUnit
    right_channel,       \* audio_data[1]
    wav,                 \* the bytes written to the file so far
    frame,               \* loop variable i of the sample loop
    \* ---- enhanced-music21-generator.py: one composition -----------------
    spc,                 \* position inside main
    sreq,                \* lyrics, tempo_bpm, duration_seconds
    measures,            \* create_enhanced_composition line 434
    lyric_analysis,      \* what analyze_lyrics_for_music returned
    measure,             \* loop variable of create_lyrics_informed_melody
    raised,              \* the exception that ended the run
    average_emotion,     \* generate_enhanced_metadata line 1208, a fraction
    \* ---- advanced-algorithmic-composer.py: compose_algorithmic_piece ------
    composition,         \* what compose_algorithmic_piece returned
    melody,              \* where compose_algorithmic_piece has its melody_notes from
    score,               \* the parts appended to the Score, in order
    failed,              \* the generators that raised inside compose_algorithmic_piece
    \* ---- enhanced-music21-generator.py: create_advanced_rhythm_pattern ---
    hpc,                 \* position inside create_advanced_rhythm_pattern
    phrase,              \* genre, and phrase_data's syllables and emotion
    rhythm_key,          \* the key of genre_rhythms that was looked up
    pattern,             \* the list a genre generator or a modifier works on
    remaining_beats,     \* in 1 / Beat of a beat
    base_pattern,        \* the pattern of the genre looked up
    item,                \* the number of items a modifier has processed
    \* ---- music-generator.py: calculate_envelope ---------------------------
    env_t,               \* t, in 1 / EnvelopeSteps of a beat
    env_note_duration,   \* the note_duration argument, in beats
    envelope             \* the value returned, as <<numerator, denominator>>

rvars == <<req, pc, duration_samples, samples_per_beat, total_beats, layer_len,
           beat, current_note_index, note_freq, noise, span, audio, run, first,
           tones>>
mvars == <<mix_in, mix_out>>
gvars == <<current, rounds, current_degree, direction, next_degree, reflected,
           melody_notes>>
kvars == <<progression, weight_sum, fell_back>>
avars == <<cells, gen, durations, offsets>>
cvars == <<variant, args, cpc, step_i, gvars, kvars, avars>>
wvars == <<wpc, sample_rate, left_channel, right_channel, wav, frame>>
svars == <<spc, sreq, measures, lyric_analysis, measure, raised, average_emotion>>
pvars == <<composition, melody, score, failed>>
hvars == <<hpc, phrase, rhythm_key, pattern, remaining_beats, base_pattern, item>>
evars == <<env_t, env_note_duration, envelope>>
xvars == <<wvars, svars, pvars, hvars, evars>>

Min(a, b) == IF a < b THEN a ELSE b
Max(a, b) == IF a > b THEN a ELSE b

(***************************************************************************)
(* Bounds of the model.                                                    *)
(***************************************************************************)
MaxDuration == 3

(***************************************************************************)
(* music-generator.py                                                      *)
(***************************************************************************)
SampleRate == 44100

\* tempo_bpm: the ends of the accepted range 40..300 and tempi between them
\* that do and do not divide the sample clock evenly
Tempos == {40, 60, 90, 120, 300}
\* duration_seconds: 1..MaxDuration and the 5 seconds of the documented scenario
Durations == (1 .. MaxDuration) \cup {5}
Genres == {"pop", "jazz", "ballad", "foo"}
\* lyrics as the word list lyrics.lower().split(); <<>> is the empty string
LyricsSet == {<<>>, <<"love">>, <<"the", "sad">>}

Requests == [tempo : Tempos, duration : Durations, genre : Genres, lyrics : LyricsSet]

\* generate_music line 41: duration_samples = int(sample_rate * duration)
DurationSamples(duration) == SampleRate * duration

\* generate_composition line 80: int(sample_rate / (tempo / 60.0)); the float
\* quotient truncates to the integer quotient for every tempo in 40..300
SamplesPerBeat(tempo) == (SampleRate * 60) \div tempo

\* generate_composition line 81: int(duration_samples / samples_per_beat)
TotalBeats(ds, spb) == ds \div spb

\* every layer generator allocates [0.0] * (total_beats * samples_per_beat)
LayerLength_padded(tb, spb) == (tb + 1) * spb
LayerLength(tb, spb) == tb * spb

Layers == {"melody", "bass", "chords", "drums"}
NoLayers == [l \in Layers |-> -1]
NoSpan == <<0, 0>>
NoAudio == [len |-> -1]
NoFirst == [note |-> -1, noise |-> 0]

\* ---- lyric analysis ------------------------------------------------------
Word_la == <<"l", "a">>
\* the words of the two lists that the model's lyrics can contain
positive_words == {<<"l", "o", "v", "e">>, <<"j", "o", "y">>, <<"h", "o", "p", "e">>}
negative_words == {<<"s", "a", "d">>, <<"c", "r", "y">>, <<"l", "o", "s", "t">>}

\* "love" -> <<"l","o","v","e">>: the model spells the words of LyricsSet
Spell(w) ==
    CASE w = "love" -> <<"l", "o", "v", "e">>
      [] w = "sad"  -> <<"s", "a", "d">>
      [] w = "the"  -> <<"t", "h", "e">>
      [] w = "tears" -> <<"t", "e", "a", "r", "s">>
      [] OTHER      -> Word_la

\* generate_melody line 124
Words(lyrics) ==
    IF lyrics = <<>> THEN <<Word_la, Word_la, Word_la, Word_la>>
    ELSE [k \in 1 .. Len(lyrics) |-> Spell(lyrics[k])]

\* analyze_emotional_content, as the exact fraction <<numerator, denominator>>
analyze_emotional_content(lyrics) ==
    IF lyrics = <<>> THEN <<1, 2>>
    ELSE LET ws == Words(lyrics)
             positive_count == Cardinality({k \in 1 .. Len(ws) : ws[k] \in positive_words})
             negative_count == Cardinality({k \in 1 .. Len(ws) : ws[k] \in negative_words})
         IN  <<2 * positive_count + 1, 2 * (positive_count + negative_count + 1)>>

\* choose_note_for_word: the index into note_range
choose_note_for_word(word, range_len, ew) ==
    LET vowel_count == Cardinality({k \in 1 .. Len(word) : word[k] \in {"a", "e", "i", "o", "u"}})
        word_length == Max(Len(word), 1)
        note_index  == ((vowel_count * ew[2] + ew[1] * word_length) * range_len)
                           \div (word_length * ew[2])
    IN  Max(0, Min(note_index, range_len - 1))

\* generate_melody lines 138-143: the first index of the slice of scale_notes;
\* every slice has 5 notes, the scale having 8 or 11
NoteRangeLen == 5
NoteRangeStart(b, tb) ==
    IF 4 * b < tb THEN 0
    ELSE IF 4 * b < 3 * tb THEN 2
    ELSE 1

\* generate_melody line 132
NoteDuration(genre) == IF genre = "ballad" THEN 2 ELSE 1

\* ---- frequencies, as multiples of the root frequency -------------------
\* get_scale_frequencies lines 253-267: the ratios in thousandths
major_ratios == <<1000, 1125, 1250, 1333, 1500, 1667, 1875, 2000>>

get_scale_frequencies(genre) ==
    IF genre \in {"blues", "jazz"}
    THEN <<1000, 1125, 1200, 1250, 1333, 1400, 1500, 1667, 1800, 1875, 2000>>
    ELSE IF genre = "minor"
    THEN <<1000, 1125, 1200, 1333, 1500, 1600, 1800, 2000>>
    ELSE major_ratios

\* get_chord_progression lines 269-280: the ratios in thousandths
get_chord_progression(genre) ==
    CASE genre = "pop"     -> <<1000, 750, 1125, 1000>>
      [] genre = "rock"    -> <<1000, 1333, 750, 1000>>
      [] genre = "blues"   -> <<1000, 1333, 1000, 1000>>
      [] genre = "jazz"    -> <<1000, 750, 1125, 1000>>
      [] genre = "country" -> <<1000, 1333, 1125, 1000>>
      [] OTHER             -> <<1000, 750, 1125, 1000>>

\* a rendered frequency is counted in 1 / Fine of a thousandth of the root,
\* which holds the halves and quarters that / 2, * 1.25 and * 1.5 produce
Fine == 2 * 2

\* lines 179 and 202: chord_progression[(beat // chord_duration) % len(...)]
chord_duration == 4
ChordRoot(genre, b) ==
    LET chord_progression == get_chord_progression(genre)
    IN  chord_progression[((b \div chord_duration) % Len(chord_progression)) + 1]

\* line 180: chord_progression[chord_index] / 2
BassTone(root) == (root * Fine) \div 2

\* line 210: [root_freq, root_freq * 1.25, root_freq * 1.5]
Triad(root) == {root * Fine, (root * Fine * 5) \div 4, (root * Fine * 3) \div 2}

\* ---- genre tables ---------------------------------------------------------
get_bass_pattern(genre) ==
    CASE genre = "pop"   -> <<TRUE, FALSE, TRUE, FALSE>>
      [] genre = "rock"  -> <<TRUE, FALSE, FALSE, TRUE>>
      [] genre = "blues" -> <<TRUE, FALSE, TRUE, TRUE>>
      [] genre = "jazz"  -> <<TRUE, TRUE, FALSE, TRUE>>
      [] OTHER           -> <<TRUE, FALSE, TRUE, FALSE>>

get_strum_pattern(genre) ==
    CASE genre = "pop"    -> <<TRUE, FALSE, TRUE, FALSE>>
      [] genre = "rock"   -> <<TRUE, TRUE, FALSE, TRUE>>
      [] genre = "blues"  -> <<TRUE, FALSE, FALSE, TRUE>>
      [] genre = "ballad" -> <<TRUE, FALSE, FALSE, FALSE>>
      [] OTHER            -> <<TRUE, FALSE, TRUE, FALSE>>

\* <<kick_pattern, snare_pattern>>
get_drum_patterns(genre) ==
    CASE genre = "pop"   -> <<(<<TRUE, FALSE, FALSE, FALSE>>), (<<FALSE, FALSE, TRUE, FALSE>>)>>
      [] genre = "rock"  -> <<(<<TRUE, FALSE, TRUE, FALSE>>), (<<FALSE, TRUE, FALSE, TRUE>>)>>
      [] genre = "blues" -> <<(<<TRUE, FALSE, TRUE, TRUE>>), (<<FALSE, FALSE, TRUE, FALSE>>)>>
      [] OTHER           -> <<(<<TRUE, FALSE, FALSE, FALSE>>), (<<FALSE, FALSE, TRUE, FALSE>>)>>

\* pattern[beat % len(pattern)] on a 1-based tuple
At(beats, b) == beats[(b % Len(beats)) + 1]

\* random.uniform(-1, 1): the two ends and the middle of the interval
NoiseDraws == {-1, 0, 1}

(***************************************************************************)
(* generate_music and generate_composition, one layer beat per step.       *)
(***************************************************************************)
RenderStart(r) ==
    /\ req = r
    /\ pc = "start"
    /\ duration_samples = 0
    /\ samples_per_beat = 0
    /\ total_beats = 0
    /\ layer_len = NoLayers
    /\ beat = 0
    /\ current_note_index = 0
    /\ note_freq = -1
    /\ noise = 0
    /\ span = NoSpan
    /\ audio = NoAudio
    /\ tones = {}

RenderInit ==
    /\ \E r \in Requests : RenderStart(r)
    /\ run = 1
    /\ first = NoFirst

RenderIdle ==
    /\ RenderStart([tempo |-> 120, duration |-> 1, genre |-> "pop", lyrics |-> <<>>])
    /\ run = 1
    /\ first = NoFirst

\* generate_music lines 40-41 and generate_composition lines 75-81, then the
\* allocation of the melody list (generate_melody lines 121-132)
Setup ==
    /\ pc = "start"
    /\ LET ds  == DurationSamples(req.duration)
           spb == SamplesPerBeat(req.tempo)
           tb  == TotalBeats(ds, spb)
       IN  /\ duration_samples' = ds
           /\ samples_per_beat' = spb
           /\ total_beats' = tb
           /\ layer_len' = [NoLayers EXCEPT !["melody"] = LayerLength(tb, spb)]
    /\ beat' = 0
    /\ current_note_index' = 0
    /\ pc' = "melody"
    /\ UNCHANGED <<req, note_freq, noise, span, audio, run, first>>
    /\ tones' = {}
    /\ UNCHANGED <<mvars, cvars, xvars>>

\* generate_melody lines 136-167: one pass of the loop over the beats
MelodyBeat ==
    /\ pc = "melody"
    /\ beat < total_beats
    /\ LET words == Words(req.lyrics)
           lo    == NoteRangeStart(beat, total_beats)
           nd    == NoteDuration(req.genre)
       IN  /\ IF current_note_index < Len(words)
              THEN /\ note_freq' = lo + choose_note_for_word(words[current_note_index + 1],
                                           NoteRangeLen, analyze_emotional_content(req.lyrics))
                   /\ current_note_index' = current_note_index + 1
              ELSE /\ \E k \in 0 .. NoteRangeLen - 1 : note_freq' = lo + k
                   /\ current_note_index' = current_note_index
           /\ span' = <<beat * samples_per_beat,
                        Min((beat + nd) * samples_per_beat, layer_len["melody"])>>
           /\ beat' = beat + nd
    /\ UNCHANGED <<req, pc, duration_samples, samples_per_beat, total_beats, layer_len,
                   noise, audio, run, first>>
    /\ tones' = {get_scale_frequencies(req.genre)[note_freq' + 1] * Fine}
    /\ UNCHANGED <<mvars, cvars, xvars>>

\* generate_melody returns; generate_bass_line allocates its list
MelodyReturn ==
    /\ pc = "melody"
    /\ beat >= total_beats
    /\ pc' = "bass"
    /\ beat' = 0
    /\ layer_len' = [layer_len EXCEPT !["bass"] = LayerLength(total_beats, samples_per_beat)]
    /\ span' = NoSpan
    /\ UNCHANGED <<req, duration_samples, samples_per_beat, total_beats,
                   current_note_index, note_freq, noise, audio, run, first>>
    /\ tones' = {}
    /\ UNCHANGED <<mvars, cvars, xvars>>

\* generate_bass_line lines 178-190: one pass of the loop over the beats
BassBeat ==
    /\ pc = "bass"
    /\ beat < total_beats
    /\ span' = IF At(get_bass_pattern(req.genre), beat)
               THEN <<beat * samples_per_beat,
                      Min(beat * samples_per_beat + samples_per_beat, layer_len["bass"])>>
               ELSE NoSpan
    /\ beat' = beat + 1
    /\ UNCHANGED <<req, pc, duration_samples, samples_per_beat, total_beats, layer_len,
                   current_note_index, note_freq, noise, audio, run, first>>
    /\ tones' = IF At(get_bass_pattern(req.genre), beat)
                THEN {BassTone(ChordRoot(req.genre, beat))}
                ELSE {}
    /\ UNCHANGED <<mvars, cvars, xvars>>

BassReturn ==
    /\ pc = "bass"
    /\ beat >= total_beats
    /\ pc' = "chords"
    /\ beat' = 0
    /\ layer_len' = [layer_len EXCEPT !["chords"] = LayerLength(total_beats, samples_per_beat)]
    /\ span' = NoSpan
    /\ UNCHANGED <<req, duration_samples, samples_per_beat, total_beats,
                   current_note_index, note_freq, noise, audio, run, first>>
    /\ tones' = {}
    /\ UNCHANGED <<mvars, cvars, xvars>>

\* generate_chord_accompaniment lines 201-221: one pass of the loop
ChordBeat ==
    /\ pc = "chords"
    /\ beat < total_beats
    /\ span' = IF At(get_strum_pattern(req.genre), beat)
               THEN <<beat * samples_per_beat,
                      Min(beat * samples_per_beat + samples_per_beat \div 2,
                          layer_len["chords"])>>
               ELSE NoSpan
    /\ beat' = beat + 1
    /\ UNCHANGED <<req, pc, duration_samples, samples_per_beat, total_beats, layer_len,
                   current_note_index, note_freq, noise, audio, run, first>>
    /\ tones' = IF At(get_strum_pattern(req.genre), beat)
                THEN Triad(ChordRoot(req.genre, beat))
                ELSE {}
    /\ UNCHANGED <<mvars, cvars, xvars>>

ChordReturn ==
    /\ pc = "chords"
    /\ beat >= total_beats
    /\ pc' = "drums"
    /\ beat' = 0
    /\ layer_len' = [layer_len EXCEPT !["drums"] = LayerLength(total_beats, samples_per_beat)]
    /\ span' = NoSpan
    /\ UNCHANGED <<req, duration_samples, samples_per_beat, total_beats,
                   current_note_index, note_freq, noise, audio, run, first>>
    /\ tones' = {}
    /\ UNCHANGED <<mvars, cvars, xvars>>

\* generate_drum_pattern lines 231-249: one pass of the loop; the snare draws
\* random.uniform(-1, 1) for every sample it writes
DrumBeat ==
    /\ pc = "drums"
    /\ beat < total_beats
    /\ LET patterns == get_drum_patterns(req.genre)
           start    == beat * samples_per_beat
           kick_end == Min(start + samples_per_beat \div 4, layer_len["drums"])
           snare_end == Min(start + samples_per_beat \div 6, layer_len["drums"])
       IN  /\ span' = IF At(patterns[1], beat) THEN <<start, kick_end>>
                      ELSE IF At(patterns[2], beat) THEN <<start, snare_end>>
                      ELSE NoSpan
           /\ IF At(patterns[2], beat) /\ start < snare_end
              THEN \E u \in NoiseDraws : noise' = u
              ELSE noise' = noise
    /\ beat' = beat + 1
    /\ UNCHANGED <<req, pc, duration_samples, samples_per_beat, total_beats, layer_len,
                   current_note_index, note_freq, audio, run, first>>
    /\ tones' = {}
    /\ UNCHANGED <<mvars, cvars, xvars>>

DrumReturn ==
    /\ pc = "drums"
    /\ beat >= total_beats
    /\ pc' = "mix"
    /\ beat' = 0
    /\ span' = NoSpan
    /\ UNCHANGED <<req, duration_samples, samples_per_beat, total_beats, layer_len,
                   current_note_index, note_freq, noise, audio, run, first>>
    /\ tones' = {}
    /\ UNCHANGED <<mvars, cvars, xvars>>

\* the first index of the mixing loop (lines 96-115) at which a layer has no
\* element: melody[i] raises IndexError there
FirstMissingIndex(ds, len) == IF len < ds THEN len ELSE -1

\* generate_composition lines 96-117: the mixing loop over range(duration_samples),
\* then the return of the two channels of length duration_samples
Mix ==
    /\ pc = "mix"
    /\ IF FirstMissingIndex(duration_samples, layer_len["melody"]) >= 0
       THEN /\ pc' = "raised"
            /\ span' = <<0, FirstMissingIndex(duration_samples, layer_len["melody"])>>
            /\ audio' = NoAudio
       ELSE /\ pc' = "returned"
            /\ span' = <<0, duration_samples>>
            /\ audio' = [len |-> duration_samples]
    /\ UNCHANGED <<req, duration_samples, samples_per_beat, total_beats, layer_len,
                   beat, current_note_index, note_freq, noise, run, first>>
    /\ UNCHANGED tones
    /\ UNCHANGED <<mvars, cvars, xvars>>

\* a second invocation of generate_music with the same arguments
Reinvoke ==
    /\ pc = "returned"
    /\ run = 1
    /\ run' = 2
    /\ first' = [note |-> note_freq, noise |-> noise]
    /\ pc' = "start"
    /\ duration_samples' = 0
    /\ samples_per_beat' = 0
    /\ total_beats' = 0
    /\ layer_len' = NoLayers
    /\ beat' = 0
    /\ current_note_index' = 0
    /\ note_freq' = -1
    /\ noise' = 0
    /\ span' = NoSpan
    /\ audio' = NoAudio
    /\ tones' = {}
    /\ UNCHANGED req
    /\ UNCHANGED <<mvars, cvars, xvars>>

RenderNext ==
    \/ Setup
    \/ MelodyBeat
    \/ MelodyReturn
    \/ BassBeat
    \/ BassReturn
    \/ ChordBeat
    \/ ChordReturn
    \/ DrumBeat
    \/ DrumReturn
    \/ Mix
    \/ Reinvoke

(***************************************************************************)
(* The arithmetic of one pass of the mixing loop (lines 98-115). Layer      *)
(* samples and gains are in hundredths, so a weighted sum is in units of    *)
(* 1/10000 and, after the 0.8 headroom factor, in units of 1/100000.        *)
(***************************************************************************)
MaxLayerValue == 300

FullScale == 100 * 100 * 10

\* max(-1.0, min(1.0, x))
Clamp_none(x) == x
Clamp(x) == Max(-FullScale, Min(FullScale, x))

melody_volume_swapped(instrumental_only) == IF instrumental_only THEN 40 ELSE 60
melody_volume(instrumental_only) == IF instrumental_only THEN 60 ELSE 40

\* lines 99-115 for one index i: <<left_channel[i], right_channel[i]>>
MixSample(m, b, c, d, instrumental_only) ==
    LET left_sample  == m * melody_volume(instrumental_only) + b * 30 + c * 20 + d * 10
        right_sample == m * (melody_volume(instrumental_only) - 5) + b * 30 + c * 25 + d * 10
    IN  <<Clamp(left_sample * 8), Clamp(right_sample * 8)>>

\* the largest magnitude of a sample of each layer, in hundredths: an
\* envelope of at most 1 times 0.6 (line 167), times 0.8 (line 190), times
\* three sines of 0.3 (lines 217-219), and a kick of 0.5 (line 239) added to
\* a snare of noise 0.3 plus tone 0.2 (lines 247-249)
MelodyPeak == 60
BassPeak == 80
ChordPeak == 3 * 30
DrumPeak == 50 + (30 + 20)

\* the values a layer sample is drawn from: silence, the peaks of the layers,
\* and values beyond full scale
LayerValues ==
    LET reached == {0, MelodyPeak, BassPeak, ChordPeak, DrumPeak, MaxLayerValue}
    IN  reached \cup {-v : v \in reached}

NotMixed == <<>>
MixIdle == mix_in = <<0, 0, 0, 0, FALSE>> /\ mix_out = NotMixed

MixInit ==
    /\ mix_in \in LayerValues \X LayerValues \X LayerValues \X LayerValues \X BOOLEAN
    /\ mix_out = NotMixed

MixOne ==
    /\ mix_out = NotMixed
    /\ mix_out' = MixSample(mix_in[1], mix_in[2], mix_in[3], mix_in[4], mix_in[5])
    /\ UNCHANGED mix_in
    /\ UNCHANGED <<rvars, cvars, xvars>>

(***************************************************************************)
(* advanced-algorithmic-composer.py and algorithmic-composer.py            *)
(***************************************************************************)
MaxIterations == 11
MaxBasicIterations == 8
MaxLength == 6
MaxWalkLength == 3
MaxStep == 9
MaxProgression == 4
MaxCells == 12
MaxRule == 255

\* len(self.scale_notes): key.Key(...).scale.pitches, tonic to octave
ScaleLen == 8

\* the cap on the L-system string (line 85) and on the rounds (line 78)
MaxStringLength == 10000
MaxRounds == 10

Variants == {"advanced", "basic"}

NoArgs == [method |-> "none"]

\* a double in [0, 2) as <<hi, lo>>: the integer hi * 2^28 + lo in units of 2^-56
Limb == 2^28
Zero == <<0, 0>>

MelodicIdle ==
    /\ current = <<>>
    /\ rounds = 0
    /\ current_degree = 0
    /\ direction = 0
    /\ next_degree = 0
    /\ reflected = "none"
    /\ melody_notes = <<>>

MarkovIdle == progression = <<>> /\ weight_sum = Zero /\ fell_back = FALSE

AutomatonIdle == cells = <<>> /\ gen = 0 /\ durations = <<>> /\ offsets = <<>>

ComposerIdle ==
    /\ variant = "advanced"
    /\ args = NoArgs
    /\ cpc = "idle"
    /\ step_i = 0
    /\ MelodicIdle
    /\ MarkovIdle
    /\ AutomatonIdle

\* ---- generate_l_system_melody ---------------------------------------------
\* rules = None: the default rules
DefaultRules_doubled ==
    [c \in {"F", "G", "+", "-"} |->
        CASE c = "F" -> <<"F", "F", "+", "G", "-", "F">>
          [] c = "G" -> <<"G", "-", "F", "+", "G">>
          [] c = "+" -> <<"+">>
          [] c = "-" -> <<"-">>]
DefaultRules ==
    [c \in {"F", "G", "+", "-"} |->
        CASE c = "F" -> <<"F", "+", "G", "-", "F">>
          [] c = "G" -> <<"G", "-", "F", "+", "G">>
          [] c = "+" -> <<"+">>
          [] c = "-" -> <<"-">>]

\* a caller's rule set that rewrites F only
GrowRules == [c \in {"F"} |-> <<"F", "F", "+">>]

RuleSets == {DefaultRules, GrowRules}
Axioms == {<<"F">>, <<"G", "+", "X">>, <<"-", "-", "F">>,
           <<"+", "+", "+", "+", "+", "+">>}

\* rules.get(char, char)
RuleFor(rules, char) == IF char \in DOMAIN rules THEN rules[char] ELSE <<char>>

\* lines 79-82: next_string, the concatenation of the replacements of
\* current[lo .. hi]
RECURSIVE RewriteSlice(_, _, _, _)
RewriteSlice(rules, s, lo, hi) ==
    IF lo > hi THEN <<>>
    ELSE IF lo = hi THEN RuleFor(rules, s[lo])
    ELSE LET mid == (lo + hi) \div 2
         IN  RewriteSlice(rules, s, lo, mid) \o RewriteSlice(rules, s, mid + 1, hi)

Rewrite(rules, s) == RewriteSlice(rules, s, 1, Len(s))

\* the number of rounds the for loop runs: range(min(iterations, 10)) in the
\* advanced composer, range(iterations) in the basic one
RoundLimit(v, iterations) ==
    IF v = "advanced" THEN Min(iterations, MaxRounds) ELSE iterations

\* line 87: current[:10000]
Truncate(s) == SubSeq(s, 1, MaxStringLength)

\* _get_safe_rhythmic_duration / get_rhythmic_duration, in hundredths
get_rhythmic_duration(position, total_length) ==
    IF total_length <= 0 THEN 100
    ELSE IF position = 0 \/ position = total_length - 1 THEN 100
    ELSE IF position % 4 = 0 THEN 75
    ELSE IF position % 2 = 0 THEN 50
    ELSE 25

\* advanced line 104, basic line 56: min(current_degree + 1, len(self.scale_notes))
StepUp_unclamped(degree) == degree + 1
StepUp(degree) == Min(degree + 1, ScaleLen)

\* advanced line 106, basic line 58: max(current_degree - 1, 1)
StepDown(degree) == Max(degree - 1, 1)

LSystemCalls ==
    {a \in [method : {"l_system"}, axiom : Axioms, rules : RuleSets,
            iterations : 0 .. MaxIterations, length : 1 .. MaxLength,
            variant : Variants] :
        a.variant = "basic" => a.iterations <= MaxBasicIterations}

LSystemInit ==
    /\ \E a \in LSystemCalls :
          /\ variant = a.variant
          /\ args = [method |-> "l_system", axiom |-> a.axiom, rules |-> a.rules,
                     iterations |-> a.iterations, length |-> a.length]
          /\ current = a.axiom
    /\ cpc = "rewrite"
    /\ rounds = 0
    /\ current_degree = 0
    /\ direction = 0
    /\ next_degree = 0
    /\ reflected = "none"
    /\ step_i = 0
    /\ melody_notes = <<>>
    /\ MarkovIdle
    /\ AutomatonIdle

\* one pass of the rewriting loop: advanced lines 78-88, basic lines 39-43
RewriteRound ==
    /\ cpc = "rewrite"
    /\ rounds < RoundLimit(variant, args.iterations)
    /\ LET next_string == Rewrite(args.rules, current)
       IN  IF variant = "advanced" /\ Len(next_string) > MaxStringLength
           THEN /\ current' = Truncate(next_string)
                /\ cpc' = "rewritten"
           ELSE /\ current' = next_string
                /\ cpc' = cpc
    /\ rounds' = rounds + 1
    /\ UNCHANGED <<variant, args, current_degree, direction, next_degree, reflected,
                   step_i, melody_notes>>
    /\ UNCHANGED <<rvars, mvars, kvars, avars, xvars>>

\* the loop is left; advanced lines 91-92, basic lines 46-47
LSystemWalkStart ==
    /\ \/ cpc = "rewritten"
       \/ cpc = "rewrite" /\ rounds >= RoundLimit(variant, args.iterations)
    /\ cpc' = "walk"
    /\ melody_notes' = <<>>
    /\ IF variant = "advanced"
       THEN \E d \in 3 .. 5 : current_degree' = d
       ELSE current_degree' = 1
    /\ step_i' = 0
    /\ UNCHANGED <<variant, args, current, rounds, direction, next_degree, reflected>>
    /\ UNCHANGED <<rvars, mvars, kvars, avars, xvars>>

\* one symbol of current[:length]: advanced lines 94-112, basic lines 49-63
LSystemSymbol ==
    /\ cpc = "walk"
    /\ args.method = "l_system"
    /\ step_i < Min(args.length, Len(current))
    /\ LET symbol == current[step_i + 1]
           in_scale == 1 <= current_degree /\ current_degree <= ScaleLen
       IN  /\ melody_notes' =
                 IF symbol = "F" /\ in_scale
                 THEN Append(melody_notes,
                             <<current_degree, get_rhythmic_duration(step_i, args.length)>>)
                 ELSE IF symbol = "G" /\ in_scale
                 THEN Append(melody_notes, <<current_degree, 25>>)
                 ELSE melody_notes
           /\ current_degree' =
                 IF symbol = "+" THEN StepUp(current_degree)
                 ELSE IF symbol = "-" THEN StepDown(current_degree)
                 ELSE current_degree
    /\ step_i' = step_i + 1
    /\ UNCHANGED <<variant, args, cpc, current, rounds, direction, next_degree, reflected>>
    /\ UNCHANGED <<rvars, mvars, kvars, avars, xvars>>

LSystemReturn ==
    /\ cpc = "walk"
    /\ args.method = "l_system"
    /\ step_i >= Min(args.length, Len(current))
    /\ cpc' = "done"
    /\ UNCHANGED <<variant, args, current, rounds, current_degree, direction,
                   next_degree, reflected, step_i, melody_notes>>
    /\ UNCHANGED <<rvars, mvars, kvars, avars, xvars>>

LSystemNext ==
    \/ RewriteRound
    \/ LSystemWalkStart
    \/ LSystemSymbol
    \/ LSystemReturn

\* ---- generate_random_walk_melody -----------------------------------------
\* step_size_range: the default (1, 3), the fixed step len(scale_notes) - 1, a
\* range wider than the scale, and one that the validation of line 125 rejects
StepRanges == {<<1, 3>>, <<ScaleLen - 1, ScaleLen - 1>>, <<1, MaxStep>>, <<2, 1>>}
\* direction_change_prob in hundredths; 150 is rejected by line 128
DirectionChangeProbs == {0, 30, 100, 150}

ValidStepRange(r) == ~(r[1] > r[2] \/ r[1] < 1)

\* step_size_range may hold floats: both ends are the integers of the pair plus
\* this many halves, (1.5, 3.5) for (1, 3). Lines 125-126 compare the ends and
\* accept such a range exactly when they accept the integer pair;
\* random.randint (line 148) raises on a non-integer end
StepFractions == {0, 1}
ValidProb(p) == 0 <= p /\ p <= 100

\* line 138 / basic line 76: max(1, min(current_degree, len(scale_notes)))
ClampDegree_none(d) == d
ClampDegree(d) == Max(1, Min(d, ScaleLen))

\* line 154 / basic line 92
ReflectUpper_clamp(n) == ScaleLen
ReflectUpper(n) == ScaleLen - (n - ScaleLen)

\* line 157 / basic line 95
ReflectLower(n) == 1 + (1 - n)

WalkCalls ==
    {a \in [method : {"random_walk"}, length : 1 .. MaxWalkLength,
            step_size_range : StepRanges, direction_change_prob : DirectionChangeProbs,
            step_size_fraction : StepFractions, variant : Variants] :
        \* the basic composer does not validate: it is called with valid arguments
        a.variant = "basic" =>
            /\ ValidStepRange(a.step_size_range) /\ ValidProb(a.direction_change_prob)
            /\ a.step_size_fraction = 0}

WalkInit ==
    /\ \E a \in WalkCalls :
          /\ variant = a.variant
          /\ args = [method |-> "random_walk", length |-> a.length,
                     step_size_range |-> a.step_size_range,
                     step_size_fraction |-> a.step_size_fraction,
                     direction_change_prob |-> a.direction_change_prob]
    /\ cpc = "start"
    /\ current = <<>>
    /\ rounds = 0
    /\ current_degree = 0
    /\ direction = 0
    /\ next_degree = 0
    /\ reflected = "none"
    /\ step_i = 0
    /\ melody_notes = <<>>
    /\ MarkovIdle
    /\ AutomatonIdle

\* advanced lines 125-129: the arguments are rejected
WalkReject ==
    /\ cpc = "start"
    /\ args.method = "random_walk"
    /\ variant = "advanced"
    /\ ~ValidStepRange(args.step_size_range) \/ ~ValidProb(args.direction_change_prob)
    /\ cpc' = "raised"
    /\ UNCHANGED <<variant, args, current, rounds, current_degree, direction,
                   next_degree, reflected, step_i, melody_notes>>
    /\ UNCHANGED <<rvars, mvars, kvars, avars, xvars>>

\* advanced lines 131-133, basic lines 70-72
WalkStart ==
    /\ cpc = "start"
    /\ args.method = "random_walk"
    /\ variant = "advanced" =>
          ValidStepRange(args.step_size_range) /\ ValidProb(args.direction_change_prob)
    /\ melody_notes' = <<>>
    /\ \E d \in 3 .. (IF variant = "advanced" THEN Min(5, ScaleLen) ELSE 5) :
          current_degree' = d
    /\ \E dir \in {-1, 1} : direction' = dir
    /\ step_i' = 0
    /\ cpc' = "walk"
    /\ UNCHANGED <<variant, args, current, rounds, next_degree, reflected>>
    /\ UNCHANGED <<rvars, mvars, kvars, avars, xvars>>

\* one pass of the loop: advanced lines 136-160, basic lines 75-96
WalkStep ==
    /\ cpc = "walk"
    /\ args.method = "random_walk"
    /\ step_i < args.length
    /\ args.step_size_fraction = 0
    /\ LET degree == ClampDegree(current_degree)
       IN  /\ melody_notes' = Append(melody_notes,
                                     <<degree, get_rhythmic_duration(step_i, args.length)>>)
           /\ \E flip \in BOOLEAN, step_size \in args.step_size_range[1] .. args.step_size_range[2] :
                 \* random.random() < direction_change_prob, random.random() in [0, 1)
                 /\ flip => args.direction_change_prob > 0
                 /\ ~flip => args.direction_change_prob < 100
                 /\ LET dir == IF flip THEN -direction ELSE direction
                        n   == degree + dir * step_size
                    IN  /\ next_degree' = n
                        /\ IF n > ScaleLen
                           THEN /\ current_degree' = ReflectUpper(n)
                                /\ direction' = -1
                                /\ reflected' = "upper"
                           ELSE IF n < 1
                           THEN /\ current_degree' = ReflectLower(n)
                                /\ direction' = 1
                                /\ reflected' = "lower"
                           ELSE /\ current_degree' = n
                                /\ direction' = dir
                                /\ reflected' = "none"
    /\ step_i' = step_i + 1
    /\ UNCHANGED <<variant, args, cpc, current, rounds>>
    /\ UNCHANGED <<rvars, mvars, kvars, avars, xvars>>

\* the safe note of the except branch, lines 164-165: scale_notes[2], the
\* third degree, quarterLength 1.0
SafeNote == <<3, 100>>

\* one pass of the loop of the advanced composer in which random.randint
\* (line 148) raises: lines 138-142 have clamped the degree and appended the
\* note of the step, lines 145-146 have drawn the direction change, and the
\* except branch (lines 161-165) appends the safe note
WalkStepFails ==
    /\ cpc = "walk"
    /\ args.method = "random_walk"
    /\ variant = "advanced"
    /\ step_i < args.length
    /\ args.step_size_fraction # 0
    /\ LET degree == ClampDegree(current_degree)
       IN  /\ current_degree' = degree
           /\ melody_notes' =
                 Append(Append(melody_notes,
                               <<degree, get_rhythmic_duration(step_i, args.length)>>),
                        SafeNote)
    /\ \E flip \in BOOLEAN :
          /\ flip => args.direction_change_prob > 0
          /\ ~flip => args.direction_change_prob < 100
          /\ direction' = IF flip THEN -direction ELSE direction
    \* the step never came to the reflection of lines 153-160
    /\ reflected' = "raised"
    /\ step_i' = step_i + 1
    /\ UNCHANGED <<variant, args, cpc, current, rounds, next_degree>>
    /\ UNCHANGED <<rvars, mvars, kvars, avars, xvars>>

WalkReturn ==
    /\ cpc = "walk"
    /\ args.method = "random_walk"
    /\ step_i >= args.length
    /\ cpc' = "done"
    /\ UNCHANGED <<variant, args, current, rounds, current_degree, direction,
                   next_degree, reflected, step_i, melody_notes>>
    /\ UNCHANGED <<rvars, mvars, kvars, avars, xvars>>

WalkNext ==
    \/ WalkReject
    \/ WalkStart
    \/ WalkStep
    \/ WalkStepFails
    \/ WalkReturn

(***************************************************************************)
(* IEEE-754 double addition on the values the Markov table holds. Every     *)
(* weight and every partial sum is a multiple of 2^-56 below 2.             *)
(***************************************************************************)
\* the number of bits of x, for 0 <= x < 2^30
BitLength(x) == CHOOSE n \in 0 .. 30 : (n = 0 \/ 2^(n - 1) <= x) /\ x < 2^n

Carry(hi, lo) == <<hi + lo \div Limb, lo % Limb>>

\* a + b rounded to 53 significant bits, ties to even
FloatAdd(a, b) ==
    LET exact == Carry(a[1] + b[1], a[2] + b[2])
        bits  == IF exact[1] > 0 THEN 28 + BitLength(exact[1]) ELSE BitLength(exact[2])
    IN  IF bits <= 53 THEN exact
        ELSE LET ulp  == 2^(bits - 53)
                 rest == exact[2] % ulp
                 odd  == (exact[2] \div ulp) % 2 = 1
                 up   == 2 * rest > ulp \/ (2 * rest = ulp /\ odd)
             IN  Carry(exact[1], exact[2] - rest + (IF up THEN ulp ELSE 0))

\* the double a decimal literal of the table denotes, by its hundredths
DoubleOf(hundredths) ==
    CASE hundredths = 10  -> <<26843545, 161061274>>
      [] hundredths = 15  -> <<40265318, 107374182>>
      [] hundredths = 20  -> <<53687091, 53687092>>
      [] hundredths = 25  -> <<67108864, 0>>
      [] hundredths = 30  -> <<80530636, 214748364>>
      [] hundredths = 40  -> <<107374182, 107374184>>
      [] hundredths = 50  -> <<134217728, 0>>
      [] hundredths = 100 -> <<Limb, 0>>
      [] OTHER            -> Zero

\* sum(weights): 0 + w1 + w2 + ... from left to right
RECURSIVE FloatSum(_, _)
FloatSum(row, n) ==
    IF n = 0 THEN Zero ELSE FloatAdd(FloatSum(row, n - 1), DoubleOf(row[n][2]))

\* |a - b| in units of 2^-56, capped at 2^29
Distance(a, b) ==
    IF a[1] - b[1] > 1 \/ b[1] - a[1] > 1 THEN 2^29
    ELSE LET d == (a[1] - b[1]) * Limb + (a[2] - b[2])
         IN  IF d < 0 THEN -d ELSE d

\* ---- generate_markov_chord_progression ------------------------------------
Chords == {"I", "ii", "iii", "IV", "V", "vi"}

\* a table with one probability mistyped
chord_transitions_typo ==
    [c \in Chords |->
        CASE c = "I"   -> <<(<<"V", 30>>), (<<"vi", 25>>), (<<"IV", 25>>), (<<"ii", 10>>), (<<"iii", 10>>)>>
          [] c = "ii"  -> <<(<<"V", 50>>), (<<"vi", 20>>), (<<"IV", 20>>), (<<"I", 15>>)>>
          [] c = "iii" -> <<(<<"vi", 40>>), (<<"IV", 30>>), (<<"I", 20>>), (<<"V", 10>>)>>
          [] c = "IV"  -> <<(<<"I", 30>>), (<<"V", 30>>), (<<"vi", 20>>), (<<"ii", 20>>)>>
          [] c = "V"   -> <<(<<"I", 40>>), (<<"vi", 30>>), (<<"IV", 20>>), (<<"ii", 10>>)>>
          [] c = "vi"  -> <<(<<"IV", 30>>), (<<"I", 25>>), (<<"V", 25>>), (<<"ii", 20>>)>>]

\* advanced lines 182-189, basic lines 103-110: each row in the order written,
\* the probabilities in hundredths
chord_transitions ==
    [c \in Chords |->
        CASE c = "I"   -> <<(<<"V", 30>>), (<<"vi", 25>>), (<<"IV", 25>>), (<<"ii", 10>>), (<<"iii", 10>>)>>
          [] c = "ii"  -> <<(<<"V", 50>>), (<<"vi", 20>>), (<<"IV", 15>>), (<<"I", 15>>)>>
          [] c = "iii" -> <<(<<"vi", 40>>), (<<"IV", 30>>), (<<"I", 20>>), (<<"V", 10>>)>>
          [] c = "IV"  -> <<(<<"I", 30>>), (<<"V", 30>>), (<<"vi", 20>>), (<<"ii", 20>>)>>
          [] c = "V"   -> <<(<<"I", 40>>), (<<"vi", 30>>), (<<"IV", 20>>), (<<"ii", 10>>)>>
          [] c = "vi"  -> <<(<<"IV", 30>>), (<<"I", 25>>), (<<"V", 25>>), (<<"ii", 20>>)>>]

\* chord_transitions.get(current_chord, {'I': 1.0})
Transitions_loop(current_chord) == <<(<<current_chord, 100>>)>>
Transitions(current_chord) ==
    IF current_chord \in DOMAIN chord_transitions
    THEN chord_transitions[current_chord]
    ELSE <<(<<"I", 100>>)>>

\* the symbols np.random.choice(chords, p=weights) can return
Samples(row, sum) ==
    IF sum = Zero THEN {row[k][1] : k \in 1 .. Len(row)}
    ELSE {row[k][1] : k \in {j \in 1 .. Len(row) : row[j][2] > 0}}

\* progression.append(next_chord)
Extend_front(p, c) == <<c>> \o p
Extend(p, c) == Append(p, c)

\* line 215
safe_chords_short == <<"I", "V">>
safe_chords == <<"I", "V", "vi", "IV">>

MarkovCalls ==
    {a \in [method : {"markov_chains"}, length : 0 .. MaxProgression, order : {1, 4},
            variant : Variants] :
        a.variant = "basic" => a.order = 1}

MarkovInit ==
    /\ \E a \in MarkovCalls :
          /\ variant = a.variant
          /\ args = [method |-> "markov_chains", length |-> a.length, order |-> a.order]
    /\ cpc = "start"
    /\ step_i = 0
    /\ MelodicIdle
    /\ MarkovIdle
    /\ AutomatonIdle

\* advanced lines 178-179
MarkovReject ==
    /\ cpc = "start"
    /\ args.method = "markov_chains"
    /\ variant = "advanced"
    /\ args.order < 1 \/ args.order > 3
    /\ cpc' = "raised"
    /\ UNCHANGED <<variant, args, step_i, kvars>>
    /\ UNCHANGED <<rvars, mvars, gvars, avars, xvars>>

\* advanced line 191, basic line 112
MarkovStart ==
    /\ cpc = "start"
    /\ args.method = "markov_chains"
    /\ variant = "advanced" => ~(args.order < 1 \/ args.order > 3)
    /\ progression' = <<"I">>
    /\ step_i' = 0
    /\ cpc' = "chain"
    /\ UNCHANGED <<variant, args, weight_sum, fell_back>>
    /\ UNCHANGED <<rvars, mvars, gvars, avars, xvars>>

\* one pass of the loop: advanced lines 195-210, basic lines 115-122
MarkovStep ==
    /\ cpc = "chain"
    /\ step_i < args.length - 1
    /\ LET current_chord == progression[Len(progression)]
           transitions   == Transitions(current_chord)
           sum           == FloatSum(transitions, Len(transitions))
       IN  /\ weight_sum' = IF variant = "advanced" THEN sum ELSE weight_sum
           /\ \E next_chord \in Samples(transitions, sum) :
                 progression' = Extend(progression, next_chord)
    /\ step_i' = step_i + 1
    /\ UNCHANGED <<variant, args, cpc, fell_back>>
    /\ UNCHANGED <<rvars, mvars, gvars, avars, xvars>>

\* advanced lines 212-216: the pass raised and the safe progression is used
MarkovFallback ==
    /\ cpc = "chain"
    /\ variant = "advanced"
    /\ step_i < args.length - 1
    /\ progression' = Extend(progression, safe_chords[(step_i % Len(safe_chords)) + 1])
    /\ fell_back' = TRUE
    /\ step_i' = step_i + 1
    /\ UNCHANGED <<variant, args, cpc, weight_sum>>
    /\ UNCHANGED <<rvars, mvars, gvars, avars, xvars>>

\* advanced lines 219-221, basic line 124
MarkovReturn ==
    /\ cpc = "chain"
    /\ step_i >= args.length - 1
    /\ cpc' = "done"
    /\ UNCHANGED <<variant, args, step_i, kvars>>
    /\ UNCHANGED <<rvars, mvars, gvars, avars, xvars>>

MarkovNext ==
    \/ MarkovReject
    \/ MarkovStart
    \/ MarkovStep
    \/ MarkovFallback
    \/ MarkovReturn

\* ---- generate_cellular_automata_rhythm ------------------------------------
\* line 234
Generations_length(length) == Min(5, length)
Generations(length) == Min(5, length \div 2)

\* lines 244-245: (rule >> pattern) & 1
RuleBit_mirrored(rule, left, center, right) ==
    LET neighbourhood == right * 4 + center * 2 + left
    IN  (rule \div 2^neighbourhood) % 2
RuleBit(rule, left, center, right) ==
    LET neighbourhood == left * 4 + center * 2 + right
    IN  (rule \div 2^neighbourhood) % 2

AutomatonCalls ==
    [method : {"cellular_automata"}, length : 0 .. MaxCells, rule : 0 .. MaxRule]

AutomatonInit ==
    /\ variant = "advanced"
    /\ args \in AutomatonCalls
    /\ cpc = "start"
    /\ step_i = 0
    /\ MelodicIdle
    /\ MarkovIdle
    /\ AutomatonIdle

\* lines 230-231 with length 0: cells[0] = 1 on an empty list raises
AutomatonRaise ==
    /\ cpc = "start"
    /\ args.method = "cellular_automata"
    /\ args.length = 0
    /\ cpc' = "raised"
    /\ UNCHANGED <<variant, args, step_i, avars>>
    /\ UNCHANGED <<rvars, mvars, gvars, kvars, xvars>>

\* lines 230-234
AutomatonSeed ==
    /\ cpc = "start"
    /\ args.method = "cellular_automata"
    /\ args.length > 0
    /\ cells' = [k \in 1 .. args.length |-> IF k - 1 = args.length \div 2 THEN 1 ELSE 0]
    /\ gen' = 0
    /\ cpc' = "evolve"
    /\ UNCHANGED <<variant, args, step_i, durations, offsets>>
    /\ UNCHANGED <<rvars, mvars, gvars, kvars, xvars>>

\* lines 237-247: one generation
AutomatonGeneration ==
    /\ cpc = "evolve"
    /\ gen < Generations(args.length)
    /\ cells' = [k \in 1 .. args.length |->
                    IF k = 1 \/ k = args.length THEN 0
                    ELSE RuleBit(args.rule, cells[k - 1], cells[k], cells[k + 1])]
    /\ gen' = gen + 1
    /\ UNCHANGED <<variant, args, cpc, step_i, durations, offsets>>
    /\ UNCHANGED <<rvars, mvars, gvars, kvars, xvars>>

\* lines 250-260: base_duration = 4.0 / length per cell, half of it for a 0
AutomatonReturn ==
    /\ cpc = "evolve"
    /\ gen >= Generations(args.length)
    /\ durations' = [k \in 1 .. args.length |->
                        IF cells[k] = 1 THEN <<4, args.length>> ELSE <<2, args.length>>]
    /\ cpc' = "done"
    /\ UNCHANGED <<variant, args, step_i, cells, gen, offsets>>
    /\ UNCHANGED <<rvars, mvars, gvars, kvars, xvars>>

\* stream.Part.append puts an element where the part ends: the numerator of
\* the start of note k is the sum of the numerators of the notes before it
RECURSIVE StartOf(_, _)
StartOf(lengths, k) ==
    IF k = 1 THEN 0 ELSE StartOf(lengths, k - 1) + lengths[k - 1][1]

\* the rule compose_algorithmic_piece calls the automaton with (its default)
DefaultRule == 30

\* compose_algorithmic_piece lines 334-340 and 350-354: the automaton is called
\* with the default rule, note i of the melody gets ca_rhythm[i] as its
\* duration, and the notes are appended to the melody part one after another
AutomatonPlace ==
    /\ cpc = "done"
    /\ args.method = "cellular_automata"
    /\ args.rule = DefaultRule
    /\ offsets' = [k \in 1 .. Len(durations) |->
                      <<StartOf(durations, k), args.length>>]
    /\ cpc' = "placed"
    /\ UNCHANGED <<variant, args, step_i, cells, gen, durations>>
    /\ UNCHANGED <<rvars, mvars, gvars, kvars, xvars>>

AutomatonNext ==
    \/ AutomatonRaise
    \/ AutomatonSeed
    \/ AutomatonGeneration
    \/ AutomatonReturn
    \/ AutomatonPlace

(***************************************************************************)
(* music-generator.py: write_stereo_wav. A sample is an integer in units    *)
(* of 1 / SampleUnit; the file is the sequence of its bytes.                *)
(***************************************************************************)
MaxFrames == 2

\* the sample 1.0
SampleUnit == FullScale \div 100

\* sample values inside and beyond [-1, 1]
SampleValues == {-(SampleUnit + SampleUnit \div 2), -(SampleUnit \div 2), 0, 1,
                 SampleUnit + SampleUnit \div 2}

WavRates == {SampleRate, 2 * SampleRate}

Buffers == UNION {[1 .. k -> SampleValues] : k \in 0 .. MaxFrames}

\* int.to_bytes(length, 'little') succeeds for 0 <= n < 256^length
Fits(n, length) == 0 <= n /\ n \div 256^(length - 1) < 256

\* int.to_bytes(length, 'little', signed=True) succeeds for these
FitsSigned(n, length) == -(256^length \div 2) <= n /\ n < 256^length \div 2

ToBytes(n, length) == [k \in 1 .. length |-> (n \div 256^(k - 1)) % 256]

ToBytesSigned(n, length) == ToBytes(IF n < 0 THEN n + 256^length ELSE n, length)

\* the integer a little-endian byte string denotes
RECURSIVE FromBytes(_)
FromBytes(b) == IF b = <<>> THEN 0 ELSE b[1] + 256 * FromBytes(Tail(b))

FromBytesSigned(b) ==
    LET n == FromBytes(b)
    IN  IF n >= 256^Len(b) \div 2 THEN n - 256^Len(b) ELSE n

\* b'RIFF', b'WAVE', b'fmt ', b'data'
Tag_RIFF == <<82, 73, 70, 70>>
Tag_WAVE == <<87, 65, 86, 69>>
Tag_fmt  == <<102, 109, 116, 32>>
Tag_data == <<100, 97, 116, 97>>

\* line 427: max(-1, min(1, sample)) in units of 1 / SampleUnit
ClampUnit(x) == Max(-SampleUnit, Min(SampleUnit, x))

\* int(a / b): the quotient with its fraction dropped, towards zero
Truncate0(a, b) == IF a >= 0 THEN a \div b ELSE -((-a) \div b)

\* lines 427-428: int(32767 * max(-1, min(1, sample)))
Quantize(x) == Truncate0(32767 * ClampUnit(x), SampleUnit)

\* lines 414 and 425: the RIFF size and data size fields
RiffSize(k) == 36 + k * 4
DataSize_mono(k) == k * 2
DataSize(k) == k * 4

\* lines 413-425: the fields of the header in the order written, each with
\* the number of bytes it takes; 0 marks a literal byte string
HeaderFields(k, rate) ==
    << <<Tag_RIFF, 0>>, <<RiffSize(k), 4>>, <<Tag_WAVE, 0>>, <<Tag_fmt, 0>>,
       <<16, 4>>, <<1, 2>>, <<2, 2>>, <<rate, 4>>, <<rate * 4, 4>>, <<4, 2>>,
       <<16, 2>>, <<Tag_data, 0>>, <<DataSize(k), 4>> >>

FieldFits(f) == f[2] = 0 \/ Fits(f[1], f[2])

FieldBytes(f) == IF f[2] = 0 THEN f[1] ELSE ToBytes(f[1], f[2])

\* the bytes of the fields 1 .. n
RECURSIVE HeaderBytes(_, _)
HeaderBytes(fields, n) ==
    IF n = 0 THEN <<>> ELSE HeaderBytes(fields, n - 1) \o FieldBytes(fields[n])

\* the number of fields written before to_bytes raises OverflowError
Written(fields) ==
    IF \A n \in 1 .. Len(fields) : FieldFits(fields[n]) THEN Len(fields)
    ELSE (CHOOSE n \in 1 .. Len(fields) :
              ~FieldFits(fields[n]) /\ \A m \in 1 .. n - 1 : FieldFits(fields[m])) - 1

WavIdle ==
    /\ wpc = "idle"
    /\ sample_rate = 0
    /\ left_channel = <<>>
    /\ right_channel = <<>>
    /\ wav = <<>>
    /\ frame = 0

\* write_stereo_wav(output_path, audio_data, sample_rate): both channels come
\* from generate_composition and have the same length
WavInit ==
    /\ wpc = "open"
    /\ sample_rate \in WavRates
    /\ left_channel \in Buffers
    /\ right_channel \in Buffers
    /\ Len(left_channel) = Len(right_channel)
    /\ wav = <<>>
    /\ frame = 0

\* lines 408-425
WriteHeader ==
    /\ wpc = "open"
    /\ LET duration_samples_w == Len(left_channel)
           fields == HeaderFields(duration_samples_w, sample_rate)
       IN  /\ wav' = HeaderBytes(fields, Written(fields))
           /\ wpc' = IF Written(fields) = Len(fields) THEN "samples" ELSE "raised"
    /\ frame' = 0
    /\ UNCHANGED <<sample_rate, left_channel, right_channel>>
    /\ UNCHANGED <<rvars, mvars, cvars, svars, pvars, hvars, evars>>

\* lines 428-432: one pass of the loop over the samples
WriteFrame ==
    /\ wpc = "samples"
    /\ frame < Len(left_channel)
    /\ LET left_sample  == Quantize(left_channel[frame + 1])
           right_sample == Quantize(right_channel[frame + 1])
       IN  IF FitsSigned(left_sample, 2) /\ FitsSigned(right_sample, 2)
           THEN /\ wav' = wav \o ToBytesSigned(left_sample, 2) \o ToBytesSigned(right_sample, 2)
                /\ frame' = frame + 1
                /\ wpc' = wpc
           ELSE /\ wpc' = "raised"
                /\ UNCHANGED <<wav, frame>>
    /\ UNCHANGED <<sample_rate, left_channel, right_channel>>
    /\ UNCHANGED <<rvars, mvars, cvars, svars, pvars, hvars, evars>>

\* the loop ends and the with block closes the file
WavClose ==
    /\ wpc = "samples"
    /\ frame >= Len(left_channel)
    /\ wpc' = "closed"
    /\ UNCHANGED <<sample_rate, left_channel, right_channel, wav, frame>>
    /\ UNCHANGED <<rvars, mvars, cvars, svars, pvars, hvars, evars>>

WavNext ==
    \/ WriteHeader
    \/ WriteFrame
    \/ WavClose

(***************************************************************************)
(* enhanced-music21-generator.py: main, create_enhanced_composition,        *)
(* analyze_lyrics_for_music and generate_enhanced_metadata. Lyrics are the   *)
(* sequence of their lines, a line the sequence of its words; a line with    *)
(* no word is blank.                                                         *)
(***************************************************************************)
MaxSeconds == 30

ScoreTempos == {60, 100, 150}
ScoreDurations == {10, MaxSeconds, 6 * MaxSeconds}

ScoreLyrics ==
    { <<>>,
      << <<>> >>,
      << <<"love">> >>,
      << <<"love", "the">>, <<"sad", "tears">> >>,
      << <<"sad">>, <<>>, <<"the", "love", "sad">> >> }

ScoreRequests ==
    [lyrics : ScoreLyrics, tempo_bpm : ScoreTempos, duration_seconds : ScoreDurations]

\* line 433
beats_per_measure == 4

\* line 434: max(8, int((duration_seconds * tempo_bpm / 60) / beats_per_measure))
Measures(duration_seconds, tempo_bpm) ==
    Max(8, (duration_seconds * tempo_bpm) \div (60 * beats_per_measure))

\* lines 456-461, in tenths; a word not listed weighs 0.0
emotion_weights(word) ==
    CASE word = "love"  -> 9
      [] word = "sad"   -> -7
      [] word = "tears" -> -6
      [] OTHER          -> 0

vowels == {"a", "e", "i", "o", "u", "A", "E", "I", "O", "U"}

\* estimate_syllables lines 497-511: the number of vowel groups, at least 1
estimate_syllables(word) ==
    LET cs == Spell(word)
        starts == {k \in 1 .. Len(cs) :
                      cs[k] \in vowels /\ (k = 1 \/ cs[k - 1] \notin vowels)}
    IN  Max(1, Cardinality(starts))

RECURSIVE SumOver(_, _, _)
SumOver(F(_), seq, n) == IF n = 0 THEN 0 ELSE SumOver(F, seq, n - 1) + F(seq[n])

\* line 452: the lines that are not blank
Lines(lyrics) == SelectSeq(lyrics, LAMBDA line : line # <<>>)

\* lines 471-493 for one line: emotion is the fraction <<numerator, denominator>>
Phrase(line) ==
    [emotion   |-> <<SumOver(emotion_weights, line, Len(line)), 10 * Max(Len(line), 1)>>,
     syllables |-> SumOver(estimate_syllables, line, Len(line))]

\* analyze_lyrics_for_music lines 451-495: one phrase for every line
analyze_lyrics_for_music(lyrics) ==
    [k \in 1 .. Len(Lines(lyrics)) |-> Phrase(Lines(lyrics)[k])]

FractionAdd(a, b) == <<a[1] * b[2] + b[1] * a[2], a[2] * b[2]>>

\* sum(lyric_analysis['emotion_arc'])
RECURSIVE EmotionSum(_, _)
EmotionSum(phrases, n) ==
    IF n = 0 THEN <<0, 1>> ELSE FractionAdd(EmotionSum(phrases, n - 1), phrases[n].emotion)

NoAnalysis == <<>>
NoAverage == <<0, 0>>

ScoreIdle ==
    /\ spc = "idle"
    /\ sreq = [lyrics |-> <<>>, tempo_bpm |-> 0, duration_seconds |-> 0]
    /\ measures = 0
    /\ lyric_analysis = NoAnalysis
    /\ measure = 0
    /\ raised = "none"
    /\ average_emotion = NoAverage

\* main line 53 calls create_enhanced_composition; generate_enhanced_metadata
\* (line 62) is also entered on its own
ScoreInit ==
    /\ spc \in {"compose", "metadata"}
    /\ sreq \in ScoreRequests
    /\ measures = 0
    /\ lyric_analysis = NoAnalysis
    /\ measure = 0
    /\ raised = "none"
    /\ average_emotion = NoAverage

\* create_enhanced_composition lines 432-434
CountMeasures ==
    /\ spc = "compose"
    /\ measures' = Measures(sreq.duration_seconds, sreq.tempo_bpm)
    /\ spc' = "analyze"
    /\ UNCHANGED <<sreq, lyric_analysis, measure, raised, average_emotion>>
    /\ UNCHANGED <<rvars, mvars, cvars, wvars, pvars, hvars, evars>>

\* create_enhanced_composition line 437
AnalyzeLyrics ==
    /\ spc = "analyze"
    /\ lyric_analysis' = analyze_lyrics_for_music(sreq.lyrics)
    /\ measure' = 0
    /\ spc' = "melody"
    /\ UNCHANGED <<sreq, measures, raised, average_emotion>>
    /\ UNCHANGED <<rvars, mvars, cvars, wvars, pvars, hvars, evars>>

\* create_lyrics_informed_melody lines 531-538, the first pass of the loop
\* (measures >= 8): measure % len(musical_phrases) divides by zero when there
\* is no phrase; otherwise create_melodic_phrase_from_lyrics line 562 calls
\* create_advanced_rhythm_pattern (three parameters, line 640) with four
\* arguments. The exception leaves main through line 70.
MelodyMeasure ==
    /\ spc = "melody"
    /\ measure < measures
    /\ raised' = IF Len(lyric_analysis) = 0 THEN "ZeroDivisionError" ELSE "TypeError"
    /\ spc' = "failed"
    /\ UNCHANGED <<sreq, measures, lyric_analysis, measure, average_emotion>>
    /\ UNCHANGED <<rvars, mvars, cvars, wvars, pvars, hvars, evars>>

\* generate_enhanced_metadata line 1196
MetadataAnalyze ==
    /\ spc = "metadata"
    /\ lyric_analysis' = analyze_lyrics_for_music(sreq.lyrics)
    /\ spc' = "average"
    /\ UNCHANGED <<sreq, measures, measure, raised, average_emotion>>
    /\ UNCHANGED <<rvars, mvars, cvars, wvars, pvars, hvars, evars>>

\* generate_enhanced_metadata line 1208:
\* sum(emotion_arc) / len(emotion_arc), then min() and max() of the arc
MetadataAverage ==
    /\ spc = "average"
    /\ IF Len(lyric_analysis) = 0
       THEN /\ raised' = "ZeroDivisionError"
            /\ spc' = "failed"
            /\ UNCHANGED average_emotion
       ELSE /\ average_emotion' =
                   LET total == EmotionSum(lyric_analysis, Len(lyric_analysis))
                   IN  <<total[1], total[2] * Len(lyric_analysis)>>
            /\ spc' = "returned"
            /\ UNCHANGED raised
    /\ UNCHANGED <<sreq, measures, lyric_analysis, measure>>
    /\ UNCHANGED <<rvars, mvars, cvars, wvars, pvars, hvars, evars>>

ScoreNext ==
    \/ CountMeasures
    \/ AnalyzeLyrics
    \/ MelodyMeasure
    \/ MetadataAnalyze
    \/ MetadataAverage

(***************************************************************************)
(* advanced-algorithmic-composer.py: compose_algorithmic_piece and           *)
(* validate_input_parameters. An argument is <<type, value>>; a complexity   *)
(* is given in hundredths.                                                   *)
(***************************************************************************)
\* line 46
valid_methods == {"l_system", "random_walk", "markov_chains", "fractal_rhythm",
                  "cellular_automata"}

\* line 51
MaxPieceLength == 1000

PieceMethods == valid_methods \cup {"foo"}
PieceLengths == {<<"int", 0>>, <<"int", 1>>, <<"int", 32>>, <<"int", MaxPieceLength>>,
                 <<"int", MaxPieceLength + 1>>, <<"int", -4>>, <<"float", 16>>, <<"str", 0>>}
PieceComplexities == {<<"float", -10>>, <<"float", 0>>, <<"float", 50>>, <<"float", 100>>,
                      <<"float", 110>>, <<"int", 100>>, <<"str", 0>>}

\* lines 48-55: the checks under which validate_input_parameters raises
InvalidMethod(method) == method \notin valid_methods
InvalidLength(length) ==
    length[1] # "int" \/ length[2] <= 0 \/ length[2] > MaxPieceLength
InvalidComplexity(complexity) ==
    complexity[1] \notin {"int", "float"} \/ ~(0 <= complexity[2] /\ complexity[2] <= 100)

validate_input_parameters(method, length, complexity) ==
    IF InvalidMethod(method) \/ InvalidLength(length) \/ InvalidComplexity(complexity)
    THEN "AlgorithmicComposerError"
    ELSE "passed"

NoComposition == "none"
PieceIdle == composition = NoComposition /\ melody = "none" /\ score = <<>> /\ failed = {}

ComposeInit ==
    /\ variant = "advanced"
    /\ args \in [method : {"compose"}, piece_method : PieceMethods, length : PieceLengths,
                 complexity : PieceComplexities]
    /\ cpc = "start"
    /\ step_i = 0
    /\ MelodicIdle
    /\ MarkovIdle
    /\ AutomatonIdle

\* lines 312-314 and 378-382: the error of validate_input_parameters is raised
\* inside the try block, caught by `except Exception` and answered with
\* _create_fallback_composition()
ComposeReject ==
    /\ cpc = "start"
    /\ args.method = "compose"
    /\ validate_input_parameters(args.piece_method, args.length, args.complexity) # "passed"
    /\ composition' = "fallback_composition"
    /\ cpc' = "done"
    /\ UNCHANGED <<melody, score, failed>>
    /\ UNCHANGED <<variant, args, step_i, gvars, kvars, avars>>
    /\ UNCHANGED <<rvars, mvars, wvars, svars, hvars, evars>>

\* lines 314-327: the arguments pass, the Score is created (key, metre and
\* tempo are not parts) and melody_notes = []
ComposeValidated ==
    /\ cpc = "start"
    /\ args.method = "compose"
    /\ validate_input_parameters(args.piece_method, args.length, args.complexity) = "passed"
    /\ melody' = "none"
    /\ score' = <<>>
    /\ cpc' = "melody"
    /\ UNCHANGED <<composition, failed>>
    /\ UNCHANGED <<variant, args, step_i, gvars, kvars, avars>>
    /\ UNCHANGED <<rvars, mvars, wvars, svars, hvars, evars>>

\* lines 329-342: the generator of the method
MelodyGenerator(piece_method) ==
    CASE piece_method = "l_system" -> "generate_l_system_melody"
      [] piece_method = "random_walk" -> "generate_random_walk_melody"
      [] piece_method = "cellular_automata" -> "generate_cellular_automata_rhythm"
      [] OTHER -> "generate_l_system_melody"

\* lines 328-342: the generator of the method returns its notes
ComposeMelody ==
    /\ cpc = "melody"
    /\ args.method = "compose"
    /\ melody' = MelodyGenerator(args.piece_method)
    /\ cpc' = "harmony"
    /\ UNCHANGED <<composition, score, failed>>
    /\ UNCHANGED <<variant, args, step_i, gvars, kvars, avars>>
    /\ UNCHANGED <<rvars, mvars, wvars, svars, hvars, evars>>

\* lines 344-347: the generator raises and _create_fallback_melody(length)
\* takes its place
ComposeMelodyFails ==
    /\ cpc = "melody"
    /\ args.method = "compose"
    /\ melody' = "_create_fallback_melody"
    /\ failed' = failed \cup {"melody"}
    /\ cpc' = "harmony"
    /\ UNCHANGED <<composition, score>>
    /\ UNCHANGED <<variant, args, step_i, gvars, kvars, avars>>
    /\ UNCHANGED <<rvars, mvars, wvars, svars, hvars, evars>>

\* lines 349-357 build melody_part, which is not yet in the Score; lines
\* 360-368: the chords are generated and the harmony part is appended
ComposeHarmony ==
    /\ cpc = "harmony"
    /\ args.method = "compose"
    /\ score' = Append(score, "Algorithmic Harmony")
    /\ cpc' = "assemble"
    /\ UNCHANGED <<composition, melody, failed>>
    /\ UNCHANGED <<variant, args, step_i, gvars, kvars, avars>>
    /\ UNCHANGED <<rvars, mvars, wvars, svars, hvars, evars>>

\* lines 369-370: generate_markov_chord_progression or an append raises before
\* line 368 is reached, and the harmony part is dropped
ComposeHarmonyFails ==
    /\ cpc = "harmony"
    /\ args.method = "compose"
    /\ failed' = failed \cup {"harmony"}
    /\ cpc' = "assemble"
    /\ UNCHANGED <<composition, melody, score>>
    /\ UNCHANGED <<variant, args, step_i, gvars, kvars, avars>>
    /\ UNCHANGED <<rvars, mvars, wvars, svars, hvars, evars>>

\* line 373: composition.append(melody_part)
AppendMelody_skip(parts) == parts
AppendMelody(parts) == Append(parts, "Algorithmic Melody")

\* lines 372-376: the melody part is appended and the Score is returned
ComposeReturn ==
    /\ cpc = "assemble"
    /\ args.method = "compose"
    /\ score' = AppendMelody(score)
    /\ composition' = "composition"
    /\ cpc' = "done"
    /\ UNCHANGED <<melody, failed>>
    /\ UNCHANGED <<variant, args, step_i, gvars, kvars, avars>>
    /\ UNCHANGED <<rvars, mvars, wvars, svars, hvars, evars>>

ComposeNext ==
    \/ ComposeReject
    \/ ComposeValidated
    \/ ComposeMelody
    \/ ComposeMelodyFails
    \/ ComposeHarmony
    \/ ComposeHarmonyFails
    \/ ComposeReturn

(***************************************************************************)
(* enhanced-music21-generator.py: create_advanced_rhythm_pattern, the pop    *)
(* and jazz pattern generators and the two emotion modifiers. A duration is  *)
(* an integer number of 1 / Beat of a beat; an emotion is in hundredths.     *)
(***************************************************************************)
MaxSyllables == 9
MaxItems == 2

\* one beat: thirds, quarters and their products with 0.75 and 1.25 are whole
Beat == 3 * 4 * 4

\* remaining_beats = 4.0
Measure == 4 * Beat

\* pattern[:8]
MaxEvents == 8

RhythmGenres == {"pop", "Jazz", "foo"}

\* genre.lower() on the genres of RhythmGenres
Lower(genre) == IF genre = "Jazz" THEN "jazz" ELSE genre

\* line 657: genre_rhythms.get(genre.lower(), genre_rhythms['pop'])
Looked(genre) == IF Lower(genre) \in {"pop", "jazz"} THEN Lower(genre) ELSE "pop"

\* `duration = d if remaining_beats >= d else remaining_beats`
Fill_over(d, remaining) == d
Fill(d, remaining) == IF remaining >= d THEN d ELSE remaining

\* lines 673-676: 0.5 (straight) or 0.75 (syncopated)
PopDurations == {Beat \div 2, (3 * Beat) \div 4}

\* lines 697-702: 1.0 / 3 (triplet), 0.25 (eighths) or 1.0 (quarter)
JazzDurations == {Beat \div 3, Beat \div 4, Beat}

First(seq, n) == SubSeq(seq, 1, Min(n, Len(seq)))

RhythmIdle ==
    /\ hpc = "idle"
    /\ phrase = [genre |-> "pop", syllables |-> 0, emotion |-> 0]
    /\ rhythm_key = "none"
    /\ pattern = <<>>
    /\ remaining_beats = 0
    /\ base_pattern = <<>>
    /\ item = 0

\* ---- the genre generators ------------------------------------------------
\* create_pop_rhythm_pattern(syllable_count, tempo_bpm) or
\* create_jazz_rhythm_pattern(syllable_count, tempo_bpm) is entered: lines
\* 669-670 and 692-693. A line of lyrics has at least one syllable (line 511)
GeneratorInit ==
    /\ hpc \in {"pop", "jazz"}
    /\ phrase \in [genre : {hpc}, syllables : 1 .. MaxSyllables, emotion : {0}]
    /\ rhythm_key = "none"
    /\ pattern = <<>>
    /\ remaining_beats = Measure
    /\ base_pattern = <<>>
    /\ item = 0

\* create_pop_rhythm_pattern lines 672-686: one pass of the loop. Of an event
\* the model keeps the duration, which alone decides the loop; accent,
\* staccato and is_rest are drawn independently of it
PopEvent ==
    /\ hpc = "pop"
    /\ remaining_beats > 0 /\ Len(pattern) < phrase.syllables
    /\ \E d \in PopDurations :
          LET duration == Fill(d, remaining_beats)
          IN  /\ pattern' = Append(pattern, [duration |-> duration])
              /\ remaining_beats' = remaining_beats - duration
    /\ UNCHANGED <<hpc, phrase, rhythm_key, base_pattern, item>>
    /\ UNCHANGED <<rvars, mvars, cvars, wvars, svars, pvars, evars>>

\* line 688: return pattern[:8]
PopReturn ==
    /\ hpc = "pop"
    /\ ~(remaining_beats > 0 /\ Len(pattern) < phrase.syllables)
    /\ base_pattern' = First(pattern, MaxEvents)
    /\ hpc' = "returned"
    /\ UNCHANGED <<phrase, rhythm_key, pattern, remaining_beats, item>>
    /\ UNCHANGED <<rvars, mvars, cvars, wvars, svars, pvars, evars>>

\* create_jazz_rhythm_pattern lines 695-712: one pass of the loop
JazzEvent ==
    /\ hpc = "jazz"
    /\ remaining_beats > 0 /\ Len(pattern) < phrase.syllables
    /\ \E d \in JazzDurations :
          LET duration == Fill(d, remaining_beats)
          IN  /\ pattern' = Append(pattern, [duration |-> duration])
              /\ remaining_beats' = remaining_beats - duration
    /\ UNCHANGED <<hpc, phrase, rhythm_key, base_pattern, item>>
    /\ UNCHANGED <<rvars, mvars, cvars, wvars, svars, pvars, evars>>

\* line 714: return pattern[:8]
JazzReturn ==
    /\ hpc = "jazz"
    /\ ~(remaining_beats > 0 /\ Len(pattern) < phrase.syllables)
    /\ base_pattern' = First(pattern, MaxEvents)
    /\ hpc' = "returned"
    /\ UNCHANGED <<phrase, rhythm_key, pattern, remaining_beats, item>>
    /\ UNCHANGED <<rvars, mvars, cvars, wvars, svars, pvars, evars>>

\* ---- create_advanced_rhythm_pattern --------------------------------------
EmotionScores == {-70, -50, 0, 50, 90}

\* the items a genre generator returns: an eighth, a dotted eighth or a
\* quarter, an accent of 0 to 3 (lines 682 and 708)
Items == [duration : {Beat \div 2, (3 * Beat) \div 4, Beat}, accent : 0 .. 3,
          is_rest : BOOLEAN]

Patterns == UNION {[1 .. n -> Items] : n \in 0 .. MaxItems}

\* line 660: emotion > 0.5, line 662: emotion < -0.5
Happy(emotion) == emotion > 50
Sad(emotion) == emotion < -50

\* add_rhythmic_energy lines 888-892
Shorten(duration) == IF 2 * duration > Beat THEN (duration * 3) \div 4 ELSE duration
RaiseAccent_uncapped(accent) == accent + 1
RaiseAccent(accent) == Min(3, accent + 1)

\* add_rhythmic_contemplation lines 901-905
Lengthen(duration) == IF duration < Beat THEN (duration * 5) \div 4 ELSE duration
LowerAccent(accent) == Max(0, accent - 1)

\* create_advanced_rhythm_pattern(genre, phrase_data, tempo_bpm) is entered:
\* lines 642-643
AdvancedInit ==
    /\ hpc = "build"
    /\ phrase \in [genre : RhythmGenres, syllables : {1}, emotion : EmotionScores]
    /\ rhythm_key = "none"
    /\ pattern = <<>>
    /\ remaining_beats = 0
    /\ base_pattern = <<>>
    /\ item = 0

\* lines 646-655: the dictionary literal calls all eight generators, whatever
\* the genre. create_hiphop_rhythm_pattern (line 652) enters its loop for any
\* syllable count of at least one, and a pass whose first draw is below 0.5
\* reads the undefined name `remainingbeats` at line 778: NameError
HipHopRaise ==
    /\ hpc = "build"
    /\ phrase.syllables >= 1
    /\ hpc' = "raised"
    /\ UNCHANGED <<phrase, rhythm_key, pattern, remaining_beats, base_pattern, item>>
    /\ UNCHANGED <<rvars, mvars, cvars, wvars, svars, pvars, evars>>

\* every pass of the hip-hop loop took another branch and the dictionary is
\* built; line 657 looks the genre up. The pattern found is any list of items
LookUp ==
    /\ hpc = "build"
    /\ rhythm_key' = Looked(phrase.genre)
    /\ base_pattern' \in Patterns
    /\ pattern' = base_pattern'
    /\ hpc' = "modify"
    /\ UNCHANGED <<phrase, remaining_beats, item>>
    /\ UNCHANGED <<rvars, mvars, cvars, wvars, svars, pvars, evars>>

\* add_rhythmic_energy lines 887-894: one item; a rest stays a rest when
\* random.random() < 0.05
EnergyItem ==
    /\ hpc = "modify"
    /\ Happy(phrase.emotion)
    /\ item < Len(pattern)
    /\ \E keeps_rest \in BOOLEAN :
          pattern' = [pattern EXCEPT ![item + 1] =
                         [duration |-> Shorten(@.duration),
                          accent   |-> RaiseAccent(@.accent),
                          is_rest  |-> IF @.is_rest THEN keeps_rest ELSE @.is_rest]]
    /\ item' = item + 1
    /\ UNCHANGED <<hpc, phrase, rhythm_key, remaining_beats, base_pattern>>
    /\ UNCHANGED <<rvars, mvars, cvars, wvars, svars, pvars, evars>>

\* add_rhythmic_contemplation lines 900-908: one item; a note becomes a rest
\* when random.random() < 0.15
ContemplationItem ==
    /\ hpc = "modify"
    /\ ~Happy(phrase.emotion) /\ Sad(phrase.emotion)
    /\ item < Len(pattern)
    /\ \E becomes_rest \in BOOLEAN :
          pattern' = [pattern EXCEPT ![item + 1] =
                         [duration |-> Lengthen(@.duration),
                          accent   |-> LowerAccent(@.accent),
                          is_rest  |-> IF ~@.is_rest /\ becomes_rest THEN TRUE
                                       ELSE @.is_rest]]
    /\ item' = item + 1
    /\ UNCHANGED <<hpc, phrase, rhythm_key, remaining_beats, base_pattern>>
    /\ UNCHANGED <<rvars, mvars, cvars, wvars, svars, pvars, evars>>

\* line 665: return base_pattern, modified or not
AdvancedReturn ==
    /\ hpc = "modify"
    /\ \/ ~Happy(phrase.emotion) /\ ~Sad(phrase.emotion)
       \/ item >= Len(pattern)
    /\ hpc' = "modified"
    /\ UNCHANGED <<phrase, rhythm_key, pattern, remaining_beats, base_pattern, item>>
    /\ UNCHANGED <<rvars, mvars, cvars, wvars, svars, pvars, evars>>

RhythmNext ==
    \/ PopEvent
    \/ PopReturn
    \/ JazzEvent
    \/ JazzReturn
    \/ HipHopRaise
    \/ LookUp
    \/ EnergyItem
    \/ ContemplationItem
    \/ AdvancedReturn

(***************************************************************************)
(* music-generator.py: calculate_envelope. t is a whole number of           *)
(* 1 / EnvelopeSteps of a beat; attack_time and release_time are tenths.    *)
(***************************************************************************)
EnvelopeSteps == 100

\* attack_time = 0.1 and release_time = 0.3, in tenths
attack_time == 1
release_time == 3

\* the note durations generate_melody passes: line 132
NoteDurations == {NoteDuration(g) : g \in Genres}

\* lines 399-404 on t / EnvelopeSteps: t < attack_time is
\* 10 t < attack_time * EnvelopeSteps in tenths of a step, and so on
calculate_envelope_sharp(t, note_duration) ==
    IF 10 * t < attack_time * EnvelopeSteps
    THEN <<10 * t, attack_time * EnvelopeSteps>>
    ELSE IF 10 * t > (10 * note_duration - release_time) * EnvelopeSteps
    THEN <<10 * (note_duration * EnvelopeSteps - t), attack_time * EnvelopeSteps>>
    ELSE <<1, 1>>
calculate_envelope(t, note_duration) ==
    IF 10 * t < attack_time * EnvelopeSteps
    THEN <<10 * t, attack_time * EnvelopeSteps>>
    ELSE IF 10 * t > (10 * note_duration - release_time) * EnvelopeSteps
    THEN <<10 * (note_duration * EnvelopeSteps - t), release_time * EnvelopeSteps>>
    ELSE <<1, 1>>

NoEnvelope == <<>>
EnvelopeIdle == env_t = 0 /\ env_note_duration = 0 /\ envelope = NoEnvelope

\* generate_melody lines 161-164: t = (i - start_sample) / samples_per_beat for
\* a sample of the note; the end of the note, t = note_duration, is included
EnvelopeInit ==
    /\ env_note_duration \in NoteDurations
    /\ env_t \in 0 .. env_note_duration * EnvelopeSteps
    /\ envelope = NoEnvelope

\* line 164: envelope = calculate_envelope(t, note_duration)
EnvelopeReturn ==
    /\ envelope = NoEnvelope
    /\ envelope' = calculate_envelope(env_t, env_note_duration)
    /\ UNCHANGED <<env_t, env_note_duration>>
    /\ UNCHANGED <<rvars, mvars, cvars, wvars, svars, pvars, hvars>>

vars == <<rvars, mvars, cvars, xvars>>

Init == RenderInit /\ MixIdle /\ ComposerIdle /\ WavIdle /\ ScoreIdle /\ PieceIdle /\ RhythmIdle /\ EnvelopeIdle
Next == RenderNext
Spec == Init /\ [][Next]_vars

InitMix == RenderIdle /\ MixInit /\ ComposerIdle /\ WavIdle /\ ScoreIdle /\ PieceIdle /\ RhythmIdle /\ EnvelopeIdle
NextMix == MixOne
SpecMix == InitMix /\ [][NextMix]_vars

InitComposer ==
    /\ RenderIdle
    /\ MixIdle
    /\ (LSystemInit \/ WalkInit \/ MarkovInit \/ AutomatonInit \/ ComposeInit)
    /\ WavIdle /\ ScoreIdle /\ PieceIdle /\ RhythmIdle /\ EnvelopeIdle
NextComposer ==
    \/ LSystemNext
    \/ WalkNext
    \/ MarkovNext
    \/ AutomatonNext
    \/ ComposeNext
SpecComposer == InitComposer /\ [][NextComposer]_vars

InitWav == RenderIdle /\ MixIdle /\ ComposerIdle /\ WavInit /\ ScoreIdle /\ PieceIdle /\ RhythmIdle /\ EnvelopeIdle
NextWav == WavNext
SpecWav == InitWav /\ [][NextWav]_vars

InitScore == RenderIdle /\ MixIdle /\ ComposerIdle /\ WavIdle /\ ScoreInit /\ PieceIdle /\ RhythmIdle /\ EnvelopeIdle
NextScore == ScoreNext
SpecScore == InitScore /\ [][NextScore]_vars

InitRhythm ==
    /\ RenderIdle /\ MixIdle /\ ComposerIdle /\ WavIdle /\ ScoreIdle /\ PieceIdle
    /\ (GeneratorInit \/ AdvancedInit)
    /\ EnvelopeIdle
NextRhythm == RhythmNext
SpecRhythm == InitRhythm /\ [][NextRhythm]_vars

InitEnvelope ==
    /\ RenderIdle /\ MixIdle /\ ComposerIdle /\ WavIdle /\ ScoreIdle /\ PieceIdle
    /\ RhythmIdle /\ EnvelopeInit
NextEnvelope == EnvelopeReturn
SpecEnvelope == InitEnvelope /\ [][NextEnvelope]_vars

(***************************************************************************)
(* Claims about the render.                                                *)
(***************************************************************************)
Finished == pc \in {"returned", "raised"}

\* C1: every request (integer duration > 0, tempo in 40..300) ends with two
\* channel buffers of exactly round(44100 * duration_seconds) samples each.
C1_ExactSampleCount == Finished => audio.len = 44100 * req.duration

\* C1, the part that holds: whenever generate_composition returns, the
\* channels have exactly 44100 * duration_seconds samples.
C1_ReturnedLengthExact == pc = "returned" => audio.len = 44100 * req.duration

\* C2: a render never aborts: the mixing loop never reads past the end of a
\* layer, for every genre, lyrics, tempo in 40..300 and duration > 0.
C2_RenderNeverAborts == pc # "raised"

\* C2, the documented scenario: empty lyrics, jazz, tempo 90, duration 5
\* yields a 220500-sample buffer.
C2_ScenarioReturns ==
    (Finished /\ req = [tempo |-> 90, duration |-> 5, genre |-> "jazz", lyrics |-> <<>>])
        => audio.len = 220500

\* C3: identical inputs produce identical output: a second invocation with
\* the same request chooses the same melody notes and the same snare noise.
C3_Deterministic ==
    (run = 2 /\ pc = "returned") => (note_freq = first.note /\ noise = first.noise)

\* C4: every sample of both output channels lies in [-1.0, 1.0], for all
\* values of the four layer samples.
C4_SamplesInRange ==
    mix_out # NotMixed =>
        \A k \in 1 .. 2 : -FullScale <= mix_out[k] /\ mix_out[k] <= FullScale

\* C4 witness: a sum beyond full scale has been limited to 1.0
C4_Witness ==
    /\ mix_out # NotMixed
    /\ mix_in[1] = MaxLayerValue /\ mix_in[2] = MaxLayerValue
    /\ mix_out[1] = FullScale

(***************************************************************************)
(* Claims about the algorithmic composers.                                 *)
(***************************************************************************)
AfterRewriting == args.method = "l_system" /\ cpc \in {"rewritten", "walk", "done"}

\* C7: the L-system string held after rewriting never exceeds 10,000
\* characters, for any axiom, rule set and iteration count.
C7_StringBounded == AfterRewriting => Len(current) <= 10000

\* C7, the part that holds: in AdvancedAlgorithmicComposer the string never
\* exceeds 10,000 characters and at most min(iterations, 10) rounds run.
C7_AdvancedStringBounded ==
    (variant = "advanced" /\ args.method = "l_system") =>
        /\ Len(current) <= 10000
        /\ rounds <= Min(args.iterations, 10)

\* C5: in both melodic generators every note is emitted at a scale degree d
\* with 1 <= d <= len(scale_notes), for every sequence of random choices.
C5_DegreesInScale ==
    \A k \in 1 .. Len(melody_notes) :
        1 <= melody_notes[k][1] /\ melody_notes[k][1] <= ScaleLen

\* C5 witness: a walk has emitted the top degree and then, its stored degree
\* having left the scale, the bottom degree
C5_Witness ==
    /\ args.method = "random_walk"
    /\ cpc = "done"
    /\ Len(melody_notes) = 3
    /\ melody_notes[2][1] = ScaleLen
    /\ melody_notes[3][1] = 1

\* C6: after a random-walk step the stored current_degree lies in
\* [1, len(scale_notes)], for every accepted step_size_range.
C6_StoredDegreeInScale ==
    (args.method = "random_walk" /\ cpc \in {"walk", "done"}) =>
        (1 <= current_degree /\ current_degree <= ScaleLen)

\* C6 amended: an overshoot is mirrored by bound - (advanced - bound) and the
\* direction forced inward; the stored degree lies in [1, len(scale_notes)]
\* whenever the largest step is at most len(scale_notes) - 1.
C6_MirrorAndInward ==
    (args.method = "random_walk" /\ cpc \in {"walk", "done"} /\ step_i >= 1) =>
        /\ reflected = "upper" =>
              (next_degree > ScaleLen /\ current_degree = ScaleLen - (next_degree - ScaleLen)
                  /\ direction = -1)
        /\ reflected = "lower" =>
              (next_degree < 1 /\ current_degree = 1 + (1 - next_degree) /\ direction = 1)
        /\ reflected = "none" => current_degree = next_degree
        /\ args.step_size_range[2] <= ScaleLen - 1 =>
              (1 <= current_degree /\ current_degree <= ScaleLen)

C6_Witness ==
    /\ args.method = "random_walk"
    /\ args.step_size_range = <<1, 3>>
    /\ reflected = "upper"
    /\ next_degree = ScaleLen + 2

One == <<Limb, 0>>

\* C8: in the Markov chord transition table the probabilities of every row
\* sum to exactly 1.0: whenever the generator has summed the row of the current
\* chord, sum(weights) is the double 1.0.
C8_RowSumsExactlyOne ==
    (args.method = "markov_chains" /\ variant = "advanced" /\ ~fell_back
        /\ Len(progression) >= 2) =>
        weight_sum = One

\* C8 amended: the probabilities written in every row add up to 1 (100
\* hundredths), and sum(weights) as the code computes it in double arithmetic
\* is within 1e-9 of 1.0 (1e-9 is 72057594 units of 2^-56).
C8_RowSumsWithinTolerance ==
    /\ \A c \in Chords :
          LET row == Transitions(c)
              RECURSIVE Total(_)
              Total(n) == IF n = 0 THEN 0 ELSE Total(n - 1) + row[n][2]
          IN  Total(Len(row)) = 100
    /\ (args.method = "markov_chains" /\ variant = "advanced" /\ ~fell_back
        /\ Len(progression) >= 2) =>
          Distance(weight_sum, One) <= 72057594

\* C8 witness: the row of iii was summed, to 1 - 2^-53
C8_Witness ==
    /\ args.method = "markov_chains"
    /\ variant = "advanced"
    /\ ~fell_back
    /\ Len(progression) = 3
    /\ progression[2] = "iii"
    /\ weight_sum = <<Limb - 1, Limb - 8>>

\* C9: every progression built by generate_markov_chord_progression starts
\* with 'I', for every length and every sequence of samples or fallbacks.
C9_StartsWithTonic ==
    (args.method = "markov_chains" /\ cpc \in {"chain", "done"}) =>
        (Len(progression) >= 1 /\ progression[1] = "I")

C9_Witness ==
    /\ args.method = "markov_chains"
    /\ cpc = "done"
    /\ fell_back
    /\ Len(progression) = 4
    /\ progression[2] = "V"
    /\ progression[4] # "I"

\* C10: the cellular automaton evolves a row of length N for exactly
\* min(5, N div 2) generations and every cell is 0 or 1 in every generation,
\* for every rule number.
C10_GenerationsAndBinaryCells ==
    args.method = "cellular_automata" =>
        /\ \A k \in 1 .. Len(cells) : cells[k] \in {0, 1}
        /\ cpc \in {"evolve", "done"} => Len(cells) = args.length
        /\ gen <= Min(5, args.length \div 2)
        /\ cpc = "done" => gen = Min(5, args.length \div 2)

C10_Witness ==
    /\ args.method = "cellular_automata"
    /\ cpc = "done"
    /\ args.length = 12
    /\ args.rule = 30
    /\ gen = 5
    /\ \E k \in 1 .. Len(cells) : cells[k] = 1

\* the field of the file that starts after `offset` bytes and is `length` long
Field(offset, length) == FromBytes(SubSeq(wav, offset + 1, offset + length))

HeaderWritten == wpc \in {"samples", "closed"}

\* C11: write_stereo_wav on K stereo samples at rate R writes a 44-byte header
\* with data size K x 4, RIFF size 36 + K x 4, byteRate R x 4, blockAlign 4,
\* 2 channels, 16 bits and PCM format 1, followed by exactly K interleaved
\* left/right frames.
C11_HeaderAndFrames ==
    LET K == Len(left_channel)
    IN  /\ HeaderWritten =>
              /\ Len(wav) = 44 + 4 * frame
              /\ SubSeq(wav, 1, 4) = Tag_RIFF
              /\ Field(4, 4) = 36 + K * 4
              /\ SubSeq(wav, 9, 12) = Tag_WAVE
              /\ SubSeq(wav, 13, 16) = Tag_fmt
              /\ Field(16, 4) = 16
              /\ Field(20, 2) = 1
              /\ Field(22, 2) = 2
              /\ Field(24, 4) = sample_rate
              /\ Field(28, 4) = sample_rate * 4
              /\ Field(32, 2) = 4
              /\ Field(34, 2) = 16
              /\ SubSeq(wav, 37, 40) = Tag_data
              /\ Field(40, 4) = K * 4
              /\ \A i \in 0 .. frame - 1 :
                    /\ FromBytesSigned(SubSeq(wav, 45 + 4 * i, 46 + 4 * i))
                          = Quantize(left_channel[i + 1])
                    /\ FromBytesSigned(SubSeq(wav, 47 + 4 * i, 48 + 4 * i))
                          = Quantize(right_channel[i + 1])
        /\ wpc = "closed" => frame = K
        /\ wpc # "raised"

C11_Witness ==
    /\ wpc = "closed"
    /\ sample_rate = 44100
    /\ Len(left_channel) = 2
    /\ Len(wav) = 52
    /\ left_channel[2] < 0
    /\ right_channel[1] > SampleUnit

\* round(a / b) to the nearest integer, a tie to the even neighbour
Round(a, b) ==
    LET q == (a - (a % b)) \div b
        r == a % b
    IN  IF 2 * r > b \/ (2 * r = b /\ q % 2 = 1) THEN q + 1 ELSE q

\* C12: each channel sample is serialized as the signed 16-bit integer
\* round(32767 x clamp(sample, -1, 1)), for every sample value.
C12_SamplesRounded ==
    HeaderWritten =>
        \A i \in 0 .. frame - 1 :
            /\ FromBytesSigned(SubSeq(wav, 45 + 4 * i, 46 + 4 * i))
                  = Round(32767 * ClampUnit(left_channel[i + 1]), SampleUnit)
            /\ FromBytesSigned(SubSeq(wav, 47 + 4 * i, 48 + 4 * i))
                  = Round(32767 * ClampUnit(right_channel[i + 1]), SampleUnit)

\* C12, the part that holds: the clamp is applied before the conversion, so
\* every serialized sample lies in -32767 .. 32767
C12_SamplesClamped ==
    HeaderWritten =>
        \A i \in 0 .. 2 * frame - 1 :
            LET v == FromBytesSigned(SubSeq(wav, 45 + 2 * i, 46 + 2 * i))
            IN  -32767 <= v /\ v <= 32767

NoLyrics == Lines(sreq.lyrics) = <<>>

Analysed == spc \in {"melody", "average", "returned", "failed"}

\* C13: when no lyrics are supplied, lyric analysis returns exactly one
\* synthetic line with EmotionScore 0.5, so that the phrase selection
\* (measure mod line_count) and the average-emotion computation never operate
\* on an empty set of lines.
C13_SyntheticLine ==
    (NoLyrics /\ Analysed) =>
        /\ Len(lyric_analysis) = 1
        /\ lyric_analysis[1].emotion[1] * 2 = lyric_analysis[1].emotion[2]
        /\ raised # "ZeroDivisionError"

\* C13, the part that holds: lyrics with at least one line that is not blank
\* give one phrase per such line and no division by zero
C13_OnePhrasePerLine ==
    (~NoLyrics /\ Analysed) =>
        /\ Len(lyric_analysis) = Len(Lines(sreq.lyrics))
        /\ raised # "ZeroDivisionError"

MeasuresCounted == measures # 0

\* C14: the total measure count equals
\* max(8, round(duration_seconds x tempo / 60 / 4)), the quotient rounded to
\* the nearest integer rather than truncated.
C14_MeasuresRounded ==
    MeasuresCounted =>
        measures = Max(8, Round(sreq.duration_seconds * sreq.tempo_bpm, 240))

\* C14, the part that holds: the count is at least 8 and is the truncated
\* quotient above that
C14_MeasuresTruncated ==
    MeasuresCounted =>
        /\ measures >= 8
        /\ measures > 8 =>
              /\ measures * 240 <= sreq.duration_seconds * sreq.tempo_bpm
              /\ sreq.duration_seconds * sreq.tempo_bpm < (measures + 1) * 240

InvalidInput ==
    /\ args.method = "compose"
    /\ \/ InvalidMethod(args.piece_method)
       \/ InvalidLength(args.length)
       \/ InvalidComplexity(args.complexity)

\* C15: when compose_algorithmic_piece is called with a method outside the
\* five valid names, a length that is not an integer in 1..1000, or a
\* complexity outside [0, 1], the caller receives an error and no composition
\* is returned.
C15_ValidationSurfaced ==
    (InvalidInput /\ cpc # "start") => (cpc = "raised" /\ composition = NoComposition)

\* C15, the part that holds: invalid arguments never get the composed piece,
\* and valid arguments always do
C15_InvalidNeverComposed ==
    (args.method = "compose" /\ cpc = "done") =>
        (composition = "composition" <=> ~InvalidInput)

\* the number of F and G symbols among the first n symbols of s
RECURSIVE CountNotes(_, _)
CountNotes(s, n) ==
    IF n = 0 THEN 0
    ELSE CountNotes(s, n - 1) + (IF s[n] \in {"F", "G"} THEN 1 ELSE 0)

Walking == args.method = "l_system" /\ cpc \in {"walk", "done"}

\* C20, as a state predicate: the number of notes equals the number of F and
\* G symbols in the part of the prefix current[:length] walked so far, and the
\* walk ends after min(length, len(current)) symbols
C20_NotesCounted ==
    Walking =>
        /\ Len(melody_notes) = CountNotes(current, step_i)
        /\ step_i <= Min(args.length, Len(current))
        /\ cpc = "done" => step_i = Min(args.length, Len(current))

\* C20, for every step of the walk: 'F' emits a note at the current degree,
\* 'G' a 0.25-beat grace note at the current degree, both leaving the degree
\* unchanged; '+' raises the degree by 1 capped at len(scale_notes), '-'
\* lowers it by 1 floored at 1; any other symbol emits nothing and leaves the
\* degree unchanged
C20_SymbolStep ==
    (Walking /\ step_i' = step_i + 1) =>
        LET symbol == current[step_i + 1]
            emitted == Len(melody_notes') = Len(melody_notes) + 1
                       /\ SubSeq(melody_notes', 1, Len(melody_notes)) = melody_notes
                       /\ melody_notes'[Len(melody_notes')][1] = current_degree
        IN  /\ symbol = "F" => (emitted /\ current_degree' = current_degree)
            /\ symbol = "G" => (emitted /\ current_degree' = current_degree
                                   /\ melody_notes'[Len(melody_notes')][2] = 25)
            /\ symbol = "+" =>
                  /\ melody_notes' = melody_notes
                  /\ current_degree' = IF current_degree < ScaleLen
                                       THEN current_degree + 1 ELSE ScaleLen
            /\ symbol = "-" =>
                  /\ melody_notes' = melody_notes
                  /\ current_degree' = IF current_degree > 1 THEN current_degree - 1 ELSE 1
            /\ symbol \notin {"F", "G", "+", "-"} =>
                  (melody_notes' = melody_notes /\ current_degree' = current_degree)

\* C20: walking the rewritten L-system string over its first `length`
\* characters: F emits a note, + raises the degree capped at the scale length,
\* - lowers it floored at 1, G emits a 0.25-beat grace note, any other symbol
\* does nothing, so the number of notes equals the number of F and G symbols
\* in that prefix.
C20_WalkOfPrefix == [](C20_NotesCounted) /\ [][C20_SymbolStep]_vars

\* C20 witness: the prefix F+G- has been walked: a note, a step up, a grace
\* note one degree higher, a step down
C20_Witness ==
    /\ Walking
    /\ cpc = "done"
    /\ Len(current) >= 4
    /\ SubSeq(current, 1, 4) = <<"F", "+", "G", "-">>
    /\ step_i = 4
    /\ Len(melody_notes) = 2
    /\ melody_notes[2] = <<melody_notes[1][1] + 1, 25>>
    /\ current_degree = melody_notes[1][1]

MaxOctaves == 4

\* t and u differ by a power of two
OctaveOf(t, u) == \E k \in 0 .. MaxOctaves : t * 2^k = u \/ u * 2^k = t

\* the values of the request's ScaleTable and ChordProgression
TableTones ==
    LET scale == get_scale_frequencies(req.genre)
        chord_progression == get_chord_progression(req.genre)
    IN  {scale[k] * Fine : k \in 1 .. Len(scale)}
            \cup {chord_progression[k] * Fine : k \in 1 .. Len(chord_progression)}

InTables(t) == \E u \in TableTones : OctaveOf(t, u)

\* C17: every frequency rendered into a track (melody notes, bass notes and
\* the three tones of each chord triad) equals a value of the request's
\* ScaleTable or ChordProgression, or such a value multiplied or divided by a
\* power of two.
C17_TonesInTables == \A t \in tones : InTables(t)

\* C17, the part that holds: the melody and bass frequencies and the root of
\* every triad are table values or octaves of them
C17_MelodyBassRootInTables ==
    /\ pc \in {"melody", "bass"} => \A t \in tones : InTables(t)
    /\ (pc = "chords" /\ tones # {}) => \E t \in tones : InTables(t)


(***************************************************************************)
(* Rhythm patterns: C16, C18, C19                                          *)
(***************************************************************************)
\* C16: an unknown genre ("foo") never raises. Refuted: building the
\* dictionary of genre patterns calls create_hiphop_rhythm_pattern for every
\* genre, and that call raises NameError.
C16_UnknownGenreNeverRaises == phrase.genre = "foo" => hpc # "raised"

\* C16, the part that holds: when the dictionary is built, an unknown genre is
\* looked up as pop.
C16_UnknownGenreLooksUpPop ==
    (phrase.genre = "foo" /\ rhythm_key # "none") => rhythm_key = "pop"

RECURSIVE TotalDuration(_)
TotalDuration(events) ==
    IF events = <<>> THEN 0
    ELSE events[1].duration + TotalDuration(Tail(events))

GeneratorReturned == hpc = "returned"

C19_EmotionPostProcessing ==
    hpc \in {"modify", "modified"} =>
        /\ Len(pattern) = Len(base_pattern)
        /\ \A k \in 1 .. Len(pattern) :
              LET old == base_pattern[k]
                  new == pattern[k]
              IN  /\ new.accent \in 0 .. 3
                  /\ IF k > item \/ (phrase.emotion >= -50 /\ phrase.emotion <= 50)
                     THEN new = old
                     ELSE IF phrase.emotion > 50
                     THEN /\ IF 2 * old.duration > Beat
                             THEN 4 * new.duration = 3 * old.duration
                             ELSE new.duration = old.duration
                          /\ new.accent = (IF old.accent = 3 THEN 3 ELSE old.accent + 1)
                          /\ ~old.is_rest => ~new.is_rest
                     ELSE /\ IF old.duration < Beat
                             THEN 4 * new.duration = 5 * old.duration
                             ELSE new.duration = old.duration
                          /\ new.accent = (IF old.accent = 0 THEN 0 ELSE old.accent - 1)
                          /\ old.is_rest => new.is_rest

\* C19 witness: a happy phrase's pattern was processed to its end; a quarter
\* note with accent 3 came out as a dotted eighth with accent 3.
C19_Witness ==
    /\ hpc = "modified"
    /\ phrase.emotion > 50
    /\ item = Len(pattern) /\ item >= 1
    /\ base_pattern[1].duration = Beat /\ base_pattern[1].accent = 3
    /\ pattern[1].duration = (3 * Beat) \div 4 /\ pattern[1].accent = 3


(***************************************************************************)
(* Degradation of the generators: C21, C22, C23                            *)
(***************************************************************************)
WalkReturned == args.method = "random_walk" /\ variant = "advanced" /\ cpc = "done"

\* C21: generate_random_walk_melody degrades locally, so that for every
\* parameter set its validation accepts the result contains exactly `length`
\* notes. Refuted: a step that fails after its note was appended contributes
\* the safe note as a second note.
C21_ExactlyLengthNotes == WalkReturned => Len(melody_notes) = args.length

\* C21, the part that holds: a failing step does not abort the run, the safe
\* note is the third degree with duration 1.0, and a walk none of whose steps
\* failed has exactly `length` notes.
C21_DegradesLocally ==
    /\ (args.method = "random_walk" /\ args.step_size_fraction # 0
           /\ ValidStepRange(args.step_size_range)
           /\ ValidProb(args.direction_change_prob)) => cpc # "raised"
    /\ (args.method = "random_walk" /\ reflected = "raised") =>
           melody_notes[Len(melody_notes)] = <<3, 100>>
    /\ (WalkReturned /\ args.step_size_fraction = 0) =>
           Len(melody_notes) = args.length


MarkovRunning ==
    args.method = "markov_chains" /\ variant = "advanced" /\ cpc \in {"chain", "done"}

\* C22, between steps: the generator does not raise for an order it accepts,
\* the progression holds the tonic and one symbol per step taken, and the
\* returned progression has exactly `length` symbols for length >= 1. A row
\* whose weights sum to zero is sampled over all its keys, and a symbol the
\* table does not know has the one transition to 'I'.
C22_OneSymbolPerStep ==
    /\ (args.method = "markov_chains" /\ variant = "advanced"
           /\ args.order >= 1 /\ args.order <= 3) => cpc # "raised"
    /\ MarkovRunning => Len(progression) = step_i + 1
    /\ (MarkovRunning /\ cpc = "done" /\ args.length >= 1) =>
           Len(progression) = args.length
    /\ Samples(<<(<<"I", 0>>), (<<"V", 0>>), (<<"vi", 0>>)>>, Zero) = {"I", "V", "vi"}
    /\ Transitions("VII") = <<(<<"I", 100>>)>>

\* C22, in a step: the first pass of a run that takes the except branch, pass
\* i, appends [I, V, vi, IV][i mod 4] and nothing else.
C22_FallbackStep ==
    (MarkovRunning /\ ~fell_back /\ fell_back') =>
        /\ step_i' = step_i + 1
        /\ progression' =
              Append(progression, (<<"I", "V", "vi", "IV">>)[(step_i % 4) + 1])

C29_TableShapesProgression ==
    (args.method = "markov_chains" /\ cpc \in {"chain", "done"} /\ ~fell_back) =>
        /\ \A k \in 1 .. Len(progression) :
              progression[k] \in {"I", "ii", "iii", "IV", "V", "vi"}
        /\ \A k \in 1 .. Len(progression) - 1 :
              /\ progression[k + 1] # progression[k]
              /\ progression[k + 1] = "iii" => progression[k] = "I"

\* C29 witness: a progression without fallback passed through 'iii'
C29_Witness ==
    /\ args.method = "markov_chains"
    /\ cpc = "done"
    /\ ~fell_back
    /\ Len(progression) >= 3
    /\ progression[2] = "iii"
    /\ progression[3] = "vi"


Composed == args.method = "compose" /\ cpc = "done" /\ ~InvalidInput

\* C23: generator failures inside compose_algorithmic_piece are degraded, never
\* raised: when the melody generator raised the melody is the fallback melody,
\* when the harmony generator raised the Score only lacks the harmony part,
\* and the returned Score always holds the melody part, as its last part.
C23_GeneratorFailuresDegraded ==
    /\ (args.method = "compose" /\ ~InvalidInput) => cpc # "raised"
    /\ Composed =>
          /\ composition = "composition"
          /\ "melody" \in failed <=> melody = "_create_fallback_melody"
          /\ score = (IF "harmony" \in failed THEN <<"Algorithmic Melody">>
                      ELSE <<"Algorithmic Harmony", "Algorithmic Melody">>)

\* C23 witness: both generators raised and the Score came back with the
\* fallback melody as its only part
C23_Witness ==
    /\ Composed
    /\ failed = {"melody", "harmony"}
    /\ melody = "_create_fallback_melody"
    /\ score = <<"Algorithmic Melody">>
    /\ composition = "composition"


(***************************************************************************)
(* The cellular automaton and its rhythm: C24, C25                         *)
(***************************************************************************)
Evolving == args.method = "cellular_automata" /\ cpc = "evolve"

\* C24, the rows: the first row has exactly one active cell, at index N div 2
\* (counted from 0), and after every generation step the cells at index 0 and
\* N - 1 are inactive.
C24_SeedAndBoundary ==
    Evolving =>
        /\ gen = 0 => \A k \in 1 .. Len(cells) :
                          cells[k] = (IF k - 1 = args.length \div 2 THEN 1 ELSE 0)
        /\ gen >= 1 => (cells[1] = 0 /\ cells[Len(cells)] = 0)

\* C24, a generation step: an interior cell becomes bit
\* (left << 2) | (center << 1) | right of the rule number.
C24_InteriorRule ==
    (Evolving /\ gen' = gen + 1) =>
        \A k \in 2 .. Len(cells) - 1 :
            cells'[k] =
                (args.rule \div 2^(4 * cells[k - 1] + 2 * cells[k] + cells[k + 1])) % 2

\* C24: the cellular-automaton row starts with exactly one active cell, at
\* index N div 2, its boundary cells are inactive after every generation step,
\* and its interior cells follow the rule number.
C24_RowEvolution == [](C24_SeedAndBoundary) /\ [][C24_InteriorRule]_vars

\* C24 witness: rule 30 has turned the seed of a row of five into three
\* active cells between the boundary cells
C24_Witness ==
    /\ Evolving
    /\ args.rule = 30
    /\ gen = 1
    /\ cells = <<0, 1, 1, 1, 0>>

RhythmPlaced == args.method = "cellular_automata" /\ cpc = "placed"

\* C25: the final row of length N maps 1:1 to N slots of 4/N beats that
\* together fill one 4-beat measure; an active cell yields a note of 4/N
\* beats, an inactive cell a note of 2/N beats followed by a rest of 2/N
\* beats, so that event i starts at beat i x 4/N. Refuted: the notes follow
\* one another without rests.
C25_SlotsFillMeasure ==
    RhythmPlaced =>
        /\ Len(durations) = args.length /\ Len(offsets) = args.length
        /\ \A k \in 1 .. args.length :
              /\ durations[k] = (IF cells[k] = 1 THEN <<4, args.length>>
                                 ELSE <<2, args.length>>)
              /\ offsets[k] = <<4 * (k - 1), args.length>>

\* C25, the part that holds: one duration per cell, 4/N beats for an active
\* cell and 2/N beats for an inactive one, each note starting where the one
\* before it ends.
C25_OneDurationPerCell ==
    RhythmPlaced =>
        /\ Len(durations) = args.length /\ Len(offsets) = args.length
        /\ \A k \in 1 .. args.length :
              /\ durations[k] = (IF cells[k] = 1 THEN <<4, args.length>>
                                 ELSE <<2, args.length>>)
              /\ offsets[k][2] = args.length
              /\ k > 1 => offsets[k][1] = offsets[k - 1][1] + durations[k - 1][1]


(***************************************************************************)
(* The shape of the default L-system string: C28                           *)
(***************************************************************************)
DefaultLSystem ==
    /\ args.method = "l_system"
    /\ args.axiom = <<"F">>
    /\ args.rules = DefaultRules

\* C28: with the default rules and axiom 'F', after any number of rewriting
\* rounds and after truncation the string starts with 'F' and alternates a
\* letter (F or G) at even indices with an operator (+ or -) at odd indices,
\* counted from 0; two consecutively emitted melody notes differ by at most
\* one scale degree.
C28_LettersAndOperatorsAlternate ==
    DefaultLSystem =>
        /\ Len(current) >= 1 /\ current[1] = "F"
        /\ \A k \in 1 .. Len(current) :
              IF k % 2 = 1 THEN current[k] \in {"F", "G"}
              ELSE current[k] \in {"+", "-"}
        /\ \A k \in 1 .. Len(melody_notes) - 1 :
              /\ melody_notes[k + 1][1] - melody_notes[k][1] <= 1
              /\ melody_notes[k][1] - melody_notes[k + 1][1] <= 1

\* C28 witness: the truncated string was walked and three notes were emitted,
\* the second one degree above the first
C28_Witness ==
    /\ DefaultLSystem
    /\ cpc = "done"
    /\ Len(current) = 10000
    /\ Len(melody_notes) = 3
    /\ melody_notes[2][1] = melody_notes[1][1] + 1


(***************************************************************************)
(* The mix and the layers of music-generator.py: C26, C27, C30             *)
(***************************************************************************)
Magnitude(x) == IF x < 0 THEN -x ELSE x

WithinPeaks ==
    /\ Magnitude(mix_in[1]) <= 60
    /\ Magnitude(mix_in[2]) <= 80
    /\ Magnitude(mix_in[3]) <= 90
    /\ Magnitude(mix_in[4]) <= 100

\* C27: within the amplitude bounds of the four layers (melody 0.6, bass 0.8,
\* chords 0.9, drums 1.0) the weighted sum of the layers times 0.8 has a
\* magnitude below 1 on both channels, with and without instrumental_only,
\* and the clamp to [-1, 1] leaves it as it is. Sums are in units of 1/100000.
C27_HeadroomAvoidsClipping ==
    (mix_out # NotMixed /\ WithinPeaks) =>
        LET volume == IF mix_in[5] THEN 60 ELSE 40
            left   == 8 * (mix_in[1] * volume + mix_in[2] * 30 + mix_in[3] * 20
                           + mix_in[4] * 10)
            right  == 8 * (mix_in[1] * (volume - 5) + mix_in[2] * 30 + mix_in[3] * 25
                           + mix_in[4] * 10)
        IN  /\ Magnitude(left) < 100000 /\ Magnitude(right) < 100000
            /\ mix_out = <<left, right>>

\* C27 witness: all four layers at their peaks in an instrumental mix give
\* 0.704 on the left and 0.716 on the right
C27_Witness ==
    /\ mix_in = <<60, 80, 90, 100, TRUE>>
    /\ mix_out = <<70400, 71600>>


\* C26: the note envelope is t / attack for t < attack, (total - t) / release
\* for t > total - release and 1.0 otherwise, with attack 0.1 and release
\* 0.3; for the note durations of the melody (1 or 2 beats) and every t in
\* [0, total] its value lies in [0, 1]. With t = env_t / EnvelopeSteps the
\* value is the fraction envelope[1] / envelope[2].
C26_EnvelopeFormulaAndRange ==
    envelope # NoEnvelope =>
        /\ env_note_duration \in {1, 2}
        /\ envelope[2] > 0
        /\ 0 <= envelope[1] /\ envelope[1] <= envelope[2]
        /\ IF 10 * env_t < EnvelopeSteps
           THEN envelope[1] * EnvelopeSteps = 10 * env_t * envelope[2]
           ELSE IF 10 * env_t > (10 * env_note_duration - 3) * EnvelopeSteps
           THEN 3 * envelope[1] * EnvelopeSteps
                    = 10 * (env_note_duration * EnvelopeSteps - env_t) * envelope[2]
           ELSE envelope[1] = envelope[2]

\* C26 witness: half way through the release of a two-beat note the envelope
\* is one half
C26_Witness ==
    /\ envelope # NoEnvelope
    /\ env_note_duration = 2
    /\ 20 * env_t = 37 * EnvelopeSteps
    /\ 2 * envelope[1] = envelope[2]


Rendering == pc \in {"melody", "bass", "chords", "drums"}

====
